---- MODULE Spec2Model ----
(***************************************************************************)
(* A model of the milk-tea tracker: the record-entry dialog                *)
(* (components/record-entry.tsx), the records page (app/my-records/        *)
(* page.tsx), the remote record store and catalog search                   *)
(* (lib/tea-database.ts), the recommendation panel                         *)
(* (components/smart-recommendations.tsx) and the weekly budget            *)
(* (unnamed/part_000).                                                     *)
(***************************************************************************)
EXTENDS Integers, Sequences, FiniteSets, TLC

(***************************************************************************)
(* IEEE-754 binary64 arithmetic, as JavaScript numbers compute it.  A      *)
(* non-negative double is [m |-> mantissa, e |-> exponent], value m * 2^e, *)
(* the mantissa a little-endian sequence of limbs in base LimbBase, never  *)
(* more than MantissaBits bits long.  Zero has the empty mantissa.         *)
(***************************************************************************)
LimbBits == 14

LimbBase == 16384

MantissaBits == 53

DivGuardLimbs == 5

RECURSIVE Pow2(_)
Pow2(n) == IF n = 0 THEN 1 ELSE 2 * Pow2(n - 1)

RECURSIVE BStrip(_)
BStrip(a) ==
  IF a = <<>> THEN a
  ELSE IF a[Len(a)] = 0 THEN BStrip(SubSeq(a, 1, Len(a) - 1)) ELSE a

RECURSIVE BFromInt(_)
BFromInt(n) == IF n = 0 THEN <<>> ELSE <<n % LimbBase>> \o BFromInt(n \div LimbBase)

RECURSIVE BToInt(_)
BToInt(a) == IF a = <<>> THEN 0 ELSE a[1] + LimbBase * BToInt(Tail(a))

RECURSIVE BAddC(_, _, _)
BAddC(a, b, c) ==
  IF a = <<>> /\ b = <<>> THEN (IF c = 0 THEN <<>> ELSE <<c>>)
  ELSE LET x == IF a = <<>> THEN 0 ELSE a[1]
           y == IF b = <<>> THEN 0 ELSE b[1]
           s == x + y + c
       IN  <<s % LimbBase>> \o
           BAddC(IF a = <<>> THEN a ELSE Tail(a),
                 IF b = <<>> THEN b ELSE Tail(b), s \div LimbBase)

BAdd(a, b) == BAddC(a, b, 0)

RECURSIVE BMulSmallC(_, _, _)
BMulSmallC(a, k, c) ==
  IF a = <<>> THEN (IF c = 0 THEN <<>> ELSE <<c>>)
  ELSE LET s == a[1] * k + c
       IN  <<s % LimbBase>> \o BMulSmallC(Tail(a), k, s \div LimbBase)

BMulSmall(a, k) == BStrip(BMulSmallC(a, k, 0))

RECURSIVE BMul(_, _)
BMul(a, b) ==
  IF b = <<>> THEN <<>>
  ELSE BAdd(BMulSmall(a, b[1]),
            LET r == BMul(a, Tail(b)) IN IF r = <<>> THEN r ELSE <<0>> \o r)

\* Short division of a by the small d, from the top limb down:
\* [q |-> quotient limbs, r |-> remainder].
RECURSIVE BDivSmallR(_, _, _)
BDivSmallR(a, d, r) ==
  IF a = <<>> THEN [q |-> <<>>, r |-> r]
  ELSE LET cur == r * LimbBase + a[Len(a)]
           rest == BDivSmallR(SubSeq(a, 1, Len(a) - 1), d, cur % d)
       IN  [q |-> rest.q \o <<cur \div d>>, r |-> rest.r]

BDivSmall(a, d) ==
  LET x == BDivSmallR(a, d, 0) IN [q |-> BStrip(x.q), r |-> x.r]

RECURSIVE IntBitLen(_)
IntBitLen(n) == IF n = 0 THEN 0 ELSE 1 + IntBitLen(n \div 2)

BBitLen(a) ==
  IF a = <<>> THEN 0 ELSE LimbBits * (Len(a) - 1) + IntBitLen(a[Len(a)])

RECURSIVE Zeros(_)
Zeros(n) == IF n = 0 THEN <<>> ELSE <<0>> \o Zeros(n - 1)

BShl(a, s) ==
  IF a = <<>> THEN a
  ELSE Zeros(s \div LimbBits) \o BMulSmall(a, Pow2(s % LimbBits))

\* a shifted right by s bits: [q |-> floor(a / 2^s), sticky |-> a bit was lost].
BShr(a, s) ==
  LET k == s \div LimbBits
      low == SubSeq(a, 1, IF k < Len(a) THEN k ELSE Len(a))
      high == IF k < Len(a) THEN SubSeq(a, k + 1, Len(a)) ELSE <<>>
      d == BDivSmall(high, Pow2(s % LimbBits))
  IN  [q |-> d.q,
       sticky |-> d.r # 0 \/ \E i \in 1..Len(low) : low[i] # 0]

\* Round n * 2^e (plus a lost fraction when sticky) to the nearest double,
\* ties to the even mantissa.
RoundToDouble(n, e, sticky) ==
  LET len == BBitLen(n) IN
  IF len <= MantissaBits THEN [m |-> n, e |-> e]
  ELSE LET s == len - MantissaBits
           x == BShr(n, s - 1)
           half == x.q[1] % 2 = 1
           q == BShr(x.q, 1).q
           odd == q[1] % 2 = 1
           up == half /\ (x.sticky \/ sticky \/ odd)
       IN  [m |-> IF up THEN BAdd(q, <<1>>) ELSE q, e |-> e + s]

FZero == [m |-> <<>>, e |-> 0]

FromInt(n) == [m |-> BFromInt(n), e |-> 0]

FMul(x, y) ==
  IF x.m = <<>> \/ y.m = <<>> THEN FZero
  ELSE RoundToDouble(BMul(x.m, y.m), x.e + y.e, FALSE)

FAdd(x, y) ==
  IF x.m = <<>> THEN y
  ELSE IF y.m = <<>> THEN x
  ELSE LET e == IF x.e < y.e THEN x.e ELSE y.e
       IN  RoundToDouble(BAdd(BShl(x.m, x.e - e), BShl(y.m, y.e - e)), e, FALSE)

\* The double nearest to a / b for small integers a >= 0, b > 0: the value
\* of the division a / b and of the decimal literal it spells.
FDivInt(a, b) ==
  IF a = 0 THEN FZero
  ELSE LET d == BDivSmall(Zeros(DivGuardLimbs) \o BFromInt(a), b)
       IN  RoundToDouble(d.q, -(LimbBits * DivGuardLimbs), d.r # 0)

\* a - b for a >= b, limb by limb with the borrow c.
RECURSIVE BSubC(_, _, _)
BSubC(a, b, c) ==
  IF a = <<>> THEN <<>>
  ELSE LET y == IF b = <<>> THEN 0 ELSE b[1]
           d == a[1] - y - c
       IN  <<IF d < 0 THEN d + LimbBase ELSE d>> \o
           BSubC(Tail(a), IF b = <<>> THEN b ELSE Tail(b), IF d < 0 THEN 1 ELSE 0)

BSub(a, b) == BStrip(BSubC(a, b, 0))

\* a < b, for stripped a and b.
RECURSIVE BLess(_, _)
BLess(a, b) ==
  IF Len(a) # Len(b) THEN Len(a) < Len(b)
  ELSE IF a = <<>> THEN FALSE
  ELSE IF a[Len(a)] # b[Len(b)] THEN a[Len(a)] < b[Len(b)]
  ELSE BLess(BStrip(SubSeq(a, 1, Len(a) - 1)), BStrip(SubSeq(b, 1, Len(b) - 1)))

\* x < y
FLess(x, y) ==
  LET e == IF x.e < y.e THEN x.e ELSE y.e
  IN  BLess(BShl(x.m, x.e - e), BShl(y.m, y.e - e))

\* x - y for x >= y
FSub(x, y) ==
  IF y.m = <<>> THEN x
  ELSE LET e == IF x.e < y.e THEN x.e ELSE y.e
           d == BSub(BShl(x.m, x.e - e), BShl(y.m, y.e - e))
       IN  IF d = <<>> THEN FZero ELSE RoundToDouble(d, e, FALSE)

\* x / d for a small integer d > 0
FDiv(x, d) ==
  IF x.m = <<>> THEN FZero
  ELSE LET q == BDivSmall(Zeros(DivGuardLimbs) \o x.m, d)
       IN  RoundToDouble(q.q, x.e - LimbBits * DivGuardLimbs, q.r # 0)

\* Math.round: the integer nearest to x, a tie going up.
MathRound(x) ==
  IF x.m = <<>> THEN 0
  ELSE IF x.e >= 0 THEN BToInt(BShl(x.m, x.e))
  ELSE BToInt(BShr(BAdd(x.m, BShl(<<1>>, (-x.e) - 1)), -x.e).q)

(***************************************************************************)
(* The calorie estimator of the record-entry dialog.                       *)
(***************************************************************************)
CupSizes == {"small", "medium", "large"}

\* The sizeMultiplier table, `|| 1.0` for a size that is not in it.
SizeMultiplier(cupSize) ==
  CASE cupSize = "small" -> FDivInt(8, 10)
    [] cupSize = "medium" -> FromInt(1)
    [] cupSize = "large" -> FDivInt(13, 10)
    [] OTHER -> FromInt(1)

\* Math.round(calories * sizeMultiplier * (0.7 + 0.3 * sugarMultiplier)),
\* the products taken left to right, for a numeric sugarLevel.
EstimateCalories(calories, cupSize, sugarLevel) ==
  LET sugarMultiplier == FDivInt(sugarLevel, 100)
  IN  MathRound(FMul(FMul(FromInt(calories), SizeMultiplier(cupSize)),
                     FAdd(FDivInt(7, 10), FMul(FDivInt(3, 10), sugarMultiplier))))

(***************************************************************************)
(* Bounds of the model.                                                    *)
(***************************************************************************)
MaxClock == 2

MaxRecords == 2

MaxTimers == 2

MaxInserts == 2

MaxSubmits == 2

TicksPerDay == 2

(***************************************************************************)
(* Values.  Strings of the user interface are given in English; the        *)
(* comment of each names the literal of the source.                        *)
(***************************************************************************)
DefaultCalories == 200

DefaultSugarLevel == 50

FetchLimit == 50

DbIdBase == 100

CustomBrand == "custom"                 \* '自定义'

UnknownBrand == "unknown brand"         \* '未知品牌'

Undefined == "undefined"                \* the value of `x || undefined` for an empty x

MsgNone == ""

MsgUpdated == "record updated"          \* '记录已更新！'

MsgSaved == "record saved"              \* '记录已保存！'

MsgSavedDb == "record saved to database"        \* '记录已成功保存到数据库！'

MsgSavedLocal == "record saved to local storage"  \* '记录已保存到本地存储！'

MsgDbFailed == "database save failed, using local storage"  \* '数据库保存失败，使用本地存储...'

MsgFailed == "save failed, please retry"        \* '保存失败，请重试'

SuccessMessages == {MsgUpdated, MsgSaved, MsgSavedDb, MsgSavedLocal}

\* A JavaScript value that is a number (num) or a string: the sugarLevel
\* state holds a percent from the slider and a label from an edited record.
Num(n) == [num |-> TRUE, n |-> n, s |-> ""]

Str(s) == [num |-> FALSE, n |-> 0, s |-> s]

\* new Date().toISOString() is modelled by the clock value it prints, and
\* its date part, .split('T')[0], by the day the clock value falls in.
DateOf(timestamp) == timestamp \div TicksPerDay

\* The record shape of the page and of the local list.
Rec(id, drinkName, brand, calories, cupSize, sugarLevel, mood, notes, date, timestamp) ==
  [id |-> id, drinkName |-> drinkName, brand |-> brand, calories |-> calories,
   cupSize |-> cupSize, sugarLevel |-> sugarLevel, mood |-> mood, notes |-> notes,
   date |-> date, timestamp |-> timestamp]

\* null, for editingRecord: the record with the id no record has.
NoRecord == Rec(0, "", "", 0, "", "", "", "", 0, 0)

\* A catalog product as the dialog holds it.
Product(id, name, brand, calories, rating) ==
  [id |-> id, name |-> name, brand |-> brand, calories |-> calories, rating |-> rating]

\* null, for selectedDrink.
NoProduct == Product(0, "", "", 0, 0)

Products == { Product(1, "oolong latte", "heytea", 20, 45) }

\* The values the user gives the form in this model.
Names == {"matcha"}

CupChoices == {"large"}

SugarChoices == {0}

Moods == {"happy"}

NotesTexts == {"less ice"}

\* x || d for a string x.
OrElse(x, d) == IF x = "" THEN d ELSE x

\* customName.trim() is empty.
IsBlank(name) == name = ""

\* getSugarLevelName of the dialog with the labels of its two middle tiers exchanged.
getSugarLevelNameExchanged(percentage) ==
  IF ~percentage.num THEN "full"
  ELSE IF percentage.n = 0 THEN "none"
  ELSE IF percentage.n <= 30 THEN "half"
  ELSE IF percentage.n <= 70 THEN "light"
  ELSE "full"

\* getSugarLevelName of the dialog.  A label is not a number: it is not
\* === 0 and every <= with it is false, so it falls through to the last line.
getSugarLevelName(percentage) ==
  IF ~percentage.num THEN "full"          \* "全糖"
  ELSE IF percentage.n = 0 THEN "none"    \* "无糖"
  ELSE IF percentage.n <= 30 THEN "light" \* "少糖"
  ELSE IF percentage.n <= 70 THEN "half"  \* "半糖"
  ELSE "full"

\* getSugarLevelName of the records page, which has a tier of its own for the
\* levels above 50 up to 70.
getSugarLevelNameOfPage(level) ==
  IF level = 0 THEN "none"            \* "无"
  ELSE IF level <= 30 THEN "light"    \* "少"
  ELSE IF level <= 50 THEN "half"     \* "半"
  ELSE IF level <= 70 THEN "seventy"  \* "七分"
  ELSE "full"                         \* "全"

\* calculateTotalCalories of the dialog: 0 without a selected drink.
calculateTotalCalories(selectedDrink, cupSize, sugarLevel) ==
  IF selectedDrink = NoProduct THEN 0
  ELSE IF ~sugarLevel.num THEN 0   \* NaN, which the display's `|| 0` shows as 0
  ELSE EstimateCalories(selectedDrink.calories, cupSize, sugarLevel.n)

(***************************************************************************)
(* Text.  A text is the sequence of its characters, so that trimming and   *)
(* pattern matching are computed.                                          *)
(***************************************************************************)
\* The lower-case letter of c, for the letters the model uses.
Lower(c) ==
  CASE c = "T" -> "t"
    [] c = "E" -> "e"
    [] c = "A" -> "a"
    [] OTHER -> c

RECURSIVE TrimStart(_)
TrimStart(text) ==
  IF text # <<>> /\ text[1] = " " THEN TrimStart(Tail(text)) ELSE text

RECURSIVE TrimEnd(_)
TrimEnd(text) ==
  IF text # <<>> /\ text[Len(text)] = " "
  THEN TrimEnd(SubSeq(text, 1, Len(text) - 1)) ELSE text

\* String.prototype.trim
Trim(text) == TrimEnd(TrimStart(text))

\* text ILIKE pattern: % stands for any text, _ for any one character,
\* letters match without regard to case.
RECURSIVE ILike(_, _)
ILike(text, pattern) ==
  IF pattern = <<>> THEN text = <<>>
  ELSE IF pattern[1] = "%"
       THEN ILike(text, Tail(pattern)) \/ (text # <<>> /\ ILike(Tail(text), pattern))
       ELSE /\ text # <<>>
            /\ pattern[1] = "_" \/ Lower(pattern[1]) = Lower(text[1])
            /\ ILike(Tail(text), Tail(pattern))

\* text contains query, letters compared without regard to case.
RECURSIVE ContainsIgnoringCase(_, _)
ContainsIgnoringCase(text, query) ==
  \/ /\ Len(query) <= Len(text)
     /\ \A i \in 1..Len(query) : Lower(text[i]) = Lower(query[i])
  \/ text # <<>> /\ ContainsIgnoringCase(Tail(text), query)

\* The first n elements of a sequence.
Take(seq, n) == SubSeq(seq, 1, IF Len(seq) < n THEN Len(seq) ELSE n)

(***************************************************************************)
(* The catalog: table tea_products of the remote store and the static list *)
(* of components/brand-search.tsx.  rating is given in tenths.            *)
(***************************************************************************)
TeaProduct(id, name, brand, description, calories, rating) ==
  [id |-> id, name |-> name, brand |-> brand, description |-> description,
   calories |-> calories, rating |-> rating]

\* null, for a recommendation.
NoTeaProduct == TeaProduct(0, <<>>, <<>>, <<>>, 0, 0)

\* The rows of tea_products, no two of the same rating.
tea_products ==
  << TeaProduct(1, <<"T", "e", "a">>, <<"A">>, <<>>, 30, 42),
     TeaProduct(2, <<"t", "e">>, <<"E">>, <<"a">>, 12, 47),
     TeaProduct(3, <<"a", "t">>, <<"A">>, <<>>, 12, 38) >>

\* rows in the order .order('rating', { ascending: false }) gives them.
RECURSIVE InsertByRating(_, _)
InsertByRating(sorted, x) ==
  IF sorted = <<>> THEN <<x>>
  ELSE IF sorted[1].rating >= x.rating
       THEN <<sorted[1]>> \o InsertByRating(Tail(sorted), x)
       ELSE <<x>> \o sorted

RECURSIVE OrderedByRating(_)
OrderedByRating(rows) ==
  IF rows = <<>> THEN <<>>
  ELSE InsertByRating(OrderedByRating(SubSeq(rows, 1, Len(rows) - 1)), rows[Len(rows)])

\* searchTeaProducts.  ok: the query of the remote store succeeds; a failure
\* is caught and gives [].  A blank query gives the best rated products.
searchTeaProducts(query, limit, ok) ==
  IF ~ok THEN <<>>
  ELSE IF Trim(query) = <<>> THEN Take(OrderedByRating(tea_products), limit)
  ELSE LET pattern == <<"%">> \o query \o <<"%">>
           Matches(row) == \/ ILike(row.name, pattern)
                           \/ ILike(row.brand, pattern)
                           \/ ILike(row.description, pattern)
       IN  Take(OrderedByRating(SelectSeq(tea_products, Matches)), limit)

\* The static product list of brand-search.tsx.
mockProducts ==
  << TeaProduct(11, <<"T", "e", "a">>, <<"A">>, <<>>, 30, 42),
     TeaProduct(12, <<"t", "e">>, <<"E">>, <<"a">>, 12, 47),
     TeaProduct(13, <<"a", "t">>, <<"A">>, <<>>, 12, 38) >>

\* searchMockProductsIntelligent of brand-search.tsx, as the catalog matcher
\* is specified: nothing for a blank query, else the products whose name,
\* brand or description contains the query, in list order, at most limit.
searchMockProductsIntelligent(query, limit) ==
  IF Trim(query) = <<>> THEN <<>>
  ELSE LET Matches(product) == \/ ContainsIgnoringCase(product.name, query)
                               \/ ContainsIgnoringCase(product.brand, query)
                               \/ ContainsIgnoringCase(product.description, query)
       IN  Take(SelectSeq(mockProducts, Matches), limit)

(***************************************************************************)
(* The recommendation panel (components/smart-recommendations.tsx).        *)
(***************************************************************************)
RecommendationLimit == 20

DefaultSearchLimit == 10

NoRecommendations == [lowestCalorie |-> NoTeaProduct, balanced |-> NoTeaProduct]

\* A reduce that keeps current whatever the calories.
LowestCalorieKeepingCurrent(searchResults) == searchResults[Len(searchResults)]

\* searchResults.reduce((prev, current) =>
\*   prev.calories < current.calories ? prev : current)
RECURSIVE LowestCalorie(_)
LowestCalorie(searchResults) ==
  IF Len(searchResults) = 1 THEN searchResults[1]
  ELSE LET prev == LowestCalorie(SubSeq(searchResults, 1, Len(searchResults) - 1))
           current == searchResults[Len(searchResults)]
       IN  IF prev.calories < current.calories THEN prev ELSE current

\* Math.max and Math.min of the calories of the results.
MaxCalories(searchResults) ==
  CHOOSE c \in {searchResults[i].calories : i \in 1..Len(searchResults)} :
    \A i \in 1..Len(searchResults) : searchResults[i].calories <= c

MinCalories(searchResults) ==
  CHOOSE c \in {searchResults[i].calories : i \in 1..Len(searchResults)} :
    \A i \in 1..Len(searchResults) : searchResults[i].calories >= c

\* balanceScore of product: ratingScore + calorieScore + brandDiversityScore.
BalanceScore(product, searchResults, lowestCalorie) ==
  LET minCalories == MinCalories(searchResults)
      range == MaxCalories(searchResults) - minCalories
      calorieRange == IF range = 0 THEN 1 ELSE range
      ratingScore == FMul(FDiv(FDivInt(product.rating, 10), 5), FDivInt(5, 10))
      calorieScore ==
        FMul(FSub(FromInt(1), FDivInt(product.calories - minCalories, calorieRange)),
             FDivInt(3, 10))
      brandDiversityScore ==
        IF product.brand # lowestCalorie.brand THEN FDivInt(2, 10) ELSE FZero
  IN  FAdd(FAdd(ratingScore, calorieScore), brandDiversityScore)

\* .sort((a, b) => b.balanceScore - a.balanceScore)[0]: the first of the
\* products of the highest score (the sort is stable).
RECURSIVE FirstOfHighestScore(_, _, _)
FirstOfHighestScore(products, searchResults, lowestCalorie) ==
  IF Len(products) = 1 THEN products[1]
  ELSE LET best == FirstOfHighestScore(SubSeq(products, 1, Len(products) - 1),
                                       searchResults, lowestCalorie)
           last == products[Len(products)]
       IN  IF FLess(BalanceScore(best, searchResults, lowestCalorie),
                    BalanceScore(last, searchResults, lowestCalorie))
           THEN last ELSE best

\* Recommendations whose balanced is the lowest product again when no other
\* product was found.
RecommendationsOfRepeating(searchResults) ==
  LET lowestCalorie == LowestCalorie(searchResults)
      filteredResults ==
        SelectSeq(searchResults, LAMBDA product : product.id # lowestCalorie.id)
  IN  [lowestCalorie |-> lowestCalorie,
       balanced |-> IF Len(filteredResults) > 0
                    THEN FirstOfHighestScore(filteredResults, searchResults, lowestCalorie)
                    ELSE lowestCalorie]

\* Math.abs(a.rating - b.rating) > 0.1, the ratings being doubles.
RatingsApart(a, b) ==
  LET x == FDivInt(a.rating, 10)
      y == FDivInt(b.rating, 10)
      difference == IF FLess(x, y) THEN FSub(y, x) ELSE FSub(x, y)
  IN  FLess(FDivInt(1, 10), difference)

\* The comparator of the fallback sort puts a before b: the higher rating
\* when the ratings are apart, the lower calories otherwise.
ComesBefore(a, b) ==
  IF RatingsApart(a, b) THEN b.rating < a.rating ELSE a.calories < b.calories

\* .sort(comparator) of the fallback, as a stable insertion sort.
RECURSIVE InsertByRatingThenCalories(_, _)
InsertByRatingThenCalories(sorted, x) ==
  IF sorted = <<>> THEN <<x>>
  ELSE IF ComesBefore(x, sorted[1]) THEN <<x>> \o sorted
       ELSE <<sorted[1]>> \o InsertByRatingThenCalories(Tail(sorted), x)

RECURSIVE SortedByRatingThenCalories(_)
SortedByRatingThenCalories(products) ==
  IF products = <<>> THEN <<>>
  ELSE InsertByRatingThenCalories(
         SortedByRatingThenCalories(SubSeq(products, 1, Len(products) - 1)),
         products[Len(products)])

\* The fallback step: [0] of the sorted products, null (`balanced || null`)
\* when there is none.
FallbackChoice(products) ==
  IF products = <<>> THEN NoTeaProduct ELSE SortedByRatingThenCalories(products)[1]

\* Recommendations whose fallback step looks at all the results when more
\* than none was found.
RecommendationsOfFallingBack(searchResults) ==
  LET lowestCalorie == LowestCalorie(searchResults)
      filteredResults ==
        SelectSeq(searchResults, LAMBDA product : product.id # lowestCalorie.id)
      scored == IF Len(filteredResults) > 0
                THEN FirstOfHighestScore(filteredResults, searchResults, lowestCalorie)
                ELSE NoTeaProduct
  IN  [lowestCalorie |-> lowestCalorie,
       balanced |-> IF scored = NoTeaProduct /\ Len(searchResults) > 0
                    THEN FallbackChoice(searchResults)
                    ELSE scored]

\* The recommendations for a search that found something: the scoring step
\* and, when it gave nothing and more than one product was found, the
\* fallback step over the same filter.
RecommendationsOf(searchResults) ==
  LET lowestCalorie == LowestCalorie(searchResults)
      filteredResults ==
        SelectSeq(searchResults, LAMBDA product : product.id # lowestCalorie.id)
      scored == IF Len(filteredResults) > 0
                THEN FirstOfHighestScore(filteredResults, searchResults, lowestCalorie)
                ELSE NoTeaProduct
  IN  [lowestCalorie |-> lowestCalorie,
       balanced |-> IF scored = NoTeaProduct /\ Len(searchResults) > 1
                    THEN FallbackChoice(filteredResults)
                    ELSE scored]

\* A panel that leaves the recommendations as they are when the search
\* finds nothing.
SmartRecommendationsKeeping(recommendations, searchQuery) ==
  IF Trim(searchQuery) = <<>> THEN NoRecommendations
  ELSE LET searchResults == searchMockProductsIntelligent(searchQuery, RecommendationLimit)
       IN  IF Len(searchResults) = 0 THEN recommendations
           ELSE RecommendationsOf(searchResults)

\* The effect on searchQuery: the recommendations it sets, whatever they
\* were.
SmartRecommendations(recommendations, searchQuery) ==
  IF Trim(searchQuery) = <<>> THEN NoRecommendations
  ELSE LET searchResults == searchMockProductsIntelligent(searchQuery, RecommendationLimit)
       IN  IF Len(searchResults) = 0 THEN NoRecommendations
           ELSE RecommendationsOf(searchResults)

(***************************************************************************)
(* State.                                                                  *)
(***************************************************************************)
VARIABLES
  now,                 \* the clock, Date.now()
  route,               \* "records": the records page is mounted; "other": another host of the dialog
  records,             \* MyRecordsPage: the in-memory record list
  isSupabaseConnected, \* MyRecordsPage
  connCheck,           \* checkTeaDatabaseConnection() has not answered yet
  showRecordEntry,     \* the dialog is mounted
  editingRecord,       \* the dialog's editingRecord prop (the page's state), NoRecord for null
  hasOnSave,           \* the dialog's onSave prop is given
  form,                \* RecordEntry: customName, selectedDrink, cupSize, sugarLevel, mood, notes
  isSaving,            \* RecordEntry
  saveMessage,         \* RecordEntry
  sub,                 \* the handleSubmit call that is waiting for the remote store
  ownTimer,            \* the delayed close of the mounted dialog is pending
  orphanTimers,        \* the number of pending delayed closes set by dialogs that are gone
  submits,             \* the number of handleSubmit calls so far
  teaRecords,          \* localStorage item 'teaRecords'
  remote,              \* the rows of table tea_records
  dbSeq,               \* the number of ids the table has given out
  lastSubmit,          \* history: the handleSubmit call that ended in the latest step
  pageLoad,            \* history: "mounted" right after the page is mounted, "loaded" when its
                       \* connection check answers next; "none" after any other step
  reported,            \* history: ids of the stored records whose save showed a success message
  lastDelete,          \* history: the id of the last handleDeleteRecord call and the submits begun before it
  sessionAdds,         \* history: the records added by the saves of the dialog opened last
  searchQuery,         \* BrandSearch: the query typed, the searchQuery prop of SmartRecommendations
  searchSeq,           \* BrandSearch: the number of queries issued so far
  inFlight,            \* the search calls that have not answered yet
  results,             \* BrandSearch: the visible search results and the call they came from
  recommendations,     \* SmartRecommendations
  completed,           \* history: the number of the call that answered in the latest step
  estimate,            \* a trial of the calorie estimator: its inputs and its result
  sweetness,           \* a trial of the sweetness labels: two percents and their labels
  scorer,              \* a trial of the recommendation effect: a query, its results, the outcome
  lookup,              \* a trial of the catalog search: a query, a limit and what is found
  budget               \* the weekly budget: the page's and the manager's state, the two stored items

pageVars == <<route, records, isSupabaseConnected, connCheck>>

dialogVars == <<showRecordEntry, editingRecord, hasOnSave, form, isSaving, saveMessage>>

storeVars == <<teaRecords, remote, dbSeq>>

recordVars ==
  <<now, pageVars, dialogVars, sub, ownTimer, orphanTimers, submits, storeVars, lastSubmit,
    pageLoad, reported, lastDelete, sessionAdds>>

searchVars == <<searchQuery, searchSeq, inFlight, results, recommendations, completed>>

trialVars == <<estimate, sweetness, scorer, lookup, budget>>

vars == <<recordVars, searchVars, trialVars>>

\* The useState initial values of RecordEntry.
InitialForm ==
  [customName |-> "", selectedDrink |-> NoProduct, cupSize |-> "medium",
   sugarLevel |-> Num(DefaultSugarLevel), mood |-> "", notes |-> ""]

\* The effect on editingRecord, run when the dialog mounts with a record.
FormFor(rec) ==
  IF rec = NoRecord THEN InitialForm
  ELSE [customName |-> rec.drinkName,
        selectedDrink |-> NoProduct,
        cupSize |-> OrElse(rec.cupSize, "medium"),
        sugarLevel |-> IF rec.sugarLevel = "" THEN Num(DefaultSugarLevel)
                       ELSE Str(rec.sugarLevel),
        mood |-> IF rec.mood = Undefined THEN "" ELSE rec.mood,
        notes |-> IF rec.notes = Undefined THEN "" ELSE rec.notes]

NoSub == [pc |-> "idle", recordData |-> NoRecord, editing |-> NoRecord,
          form |-> InitialForm, recordedAt |-> 0, orphan |-> FALSE]

NoSubmit == [path |-> "none", remote |-> "skipped", error |-> "none", message |-> MsgNone,
             edit |-> FALSE, recordData |-> NoRecord,
             editing |-> NoRecord, selectedDrink |-> NoProduct,
             cupSize |-> "", sugarLevel |-> Num(0), stored |-> NoRecord]

\* No handleDeleteRecord call was made yet.
NoDelete == [id |-> 0, at |-> 0]

\* No handleSubmit call ends and no page load happens in the step, and the
\* search and the estimator trial are left alone.
Quiet == lastSubmit' = NoSubmit /\ pageLoad' = "none" /\ UNCHANGED <<searchVars, trialVars>>

LocalAbsent == [state |-> "absent", recs |-> <<>>]

LocalMalformed == [state |-> "malformed", recs |-> <<>>]

LocalValid(recs) == [state |-> "valid", recs |-> recs]

Ids(recs) == {recs[i].id : i \in 1..Len(recs)}

(***************************************************************************)
(* The lists.                                                              *)
(***************************************************************************)
\* x put into the list sorted by timestamp, newest first, behind the
\* entries that are as new as x (Array.prototype.sort is stable).
RECURSIVE InsertByTimestamp(_, _)
InsertByTimestamp(sorted, x) ==
  IF sorted = <<>> THEN <<x>>
  ELSE IF sorted[1].timestamp >= x.timestamp
       THEN <<sorted[1]>> \o InsertByTimestamp(Tail(sorted), x)
       ELSE <<x>> \o sorted

\* records.sort((a, b) => b.timestamp - a.timestamp) of the page's render:
\* it sorts the state array in place each time the list is shown.
RECURSIVE SortedByTimestamp(_)
SortedByTimestamp(recs) ==
  IF recs = <<>> THEN <<>>
  ELSE InsertByTimestamp(SortedByTimestamp(SubSeq(recs, 1, Len(recs) - 1)),
                         recs[Len(recs)])

\* recs.filter(record => record.id !== id)
RECURSIVE WithoutId(_, _)
WithoutId(recs, id) ==
  IF recs = <<>> THEN <<>>
  ELSE (IF recs[1].id # id THEN <<recs[1]>> ELSE <<>>) \o WithoutId(Tail(recs), id)

\* recs.map(record => record.id === id ? replacement : record)
ReplaceById(recs, id, replacement) ==
  [i \in 1..Len(recs) |-> IF recs[i].id = id THEN replacement ELSE recs[i]]

\* { ...record, ...updatedRecord }: updatedRecord sets every field of the shape.
Merged(record, updatedRecord) == updatedRecord

\* A row of tea_records as the page shows it (formattedRecords of loadRecords).
\* No save sets tea_product_id, so the joined tea_products is null.
Formatted(row) ==
  Rec(row.id, row.tea_name, UnknownBrand, row.estimated_calories, row.size,
      row.sweetness_level, row.mood, row.notes, DateOf(row.recorded_at),
      row.recorded_at)

\* rows ordered by recorded_at, newest first, the first `limit` of them.
RECURSIVE InsertByRecordedAt(_, _)
InsertByRecordedAt(sorted, x) ==
  IF sorted = <<>> THEN <<x>>
  ELSE IF sorted[1].recorded_at >= x.recorded_at
       THEN <<sorted[1]>> \o InsertByRecordedAt(Tail(sorted), x)
       ELSE <<x>> \o sorted

RECURSIVE OrderedByRecordedAt(_)
OrderedByRecordedAt(rows) ==
  IF rows = <<>> THEN <<>>
  ELSE InsertByRecordedAt(OrderedByRecordedAt(SubSeq(rows, 1, Len(rows) - 1)),
                          rows[Len(rows)])

\* getUserTeaRecords: the user's rows, or [] when the query fails.
getUserTeaRecords(rows, ok) ==
  IF ~ok THEN <<>>
  ELSE LET all == OrderedByRecordedAt(rows)
       IN  SubSeq(all, 1, IF Len(all) < FetchLimit THEN Len(all) ELSE FetchLimit)

\* The row saveTeaRecord inserts for teaRecord; the table gives it its id.
InsertedRow(id, recordData, f, recordedAt) ==
  [id |-> id, tea_name |-> recordData.drinkName, custom_name |-> f.customName,
   size |-> f.cupSize, sweetness_level |-> recordData.sugarLevel,
   estimated_calories |-> recordData.calories,
   mood |-> OrElse(f.mood, Undefined), notes |-> OrElse(f.notes, Undefined),
   recorded_at |-> recordedAt]

\* recordData of handleSubmit.
RecordData(f, editing, t) ==
  Rec(IF editing # NoRecord THEN editing.id ELSE t,
      f.customName, CustomBrand, DefaultCalories, f.cupSize,
      getSugarLevelName(f.sugarLevel), f.mood, f.notes,
      IF editing # NoRecord THEN editing.date ELSE DateOf(t),
      IF editing # NoRecord THEN editing.timestamp ELSE t)

(***************************************************************************)
(* The records page.                                                       *)
(***************************************************************************)
\* setTimeout(..., 1500): a pending delayed close runs at some later
\* step.  The timers of dialogs that are gone, and that of the dialog that
\* goes when own is true.
Orphaned(timers, own) == IF own THEN timers + 1 ELSE timers

\* The dialog is not rendered: its component state is gone.
DialogClosed ==
  /\ showRecordEntry' = FALSE
  /\ editingRecord' = NoRecord
  /\ hasOnSave' = TRUE
  /\ form' = InitialForm
  /\ isSaving' = FALSE
  /\ saveMessage' = MsgNone

\* What a closing dialog leaves behind: its pending delayed close and its
\* waiting handleSubmit go on without it.
DialogLeftBehind ==
  /\ ownTimer' = FALSE
  /\ orphanTimers' = Orphaned(orphanTimers, ownTimer)
  /\ sub' = IF sub.pc # "idle" THEN [sub EXCEPT !.orphan = TRUE] ELSE sub

\* The local branch of loadRecords: the list shown when 'teaRecords' holds a
\* list that parses, the list as it was otherwise.
LoadedFromLocal(current) ==
  IF teaRecords.state = "valid" THEN SortedByTimestamp(teaRecords.recs) ELSE current

\* loadRecords: the rows of the remote store when it is connected and
\* answers with at least one row, the local branch otherwise.
LoadedRecords(current, connected, ok) ==
  LET dbRecords == getUserTeaRecords(remote, ok) IN
  IF connected /\ Len(dbRecords) > 0
  THEN SortedByTimestamp([i \in 1..Len(dbRecords) |-> Formatted(dbRecords[i])])
  ELSE LoadedFromLocal(current)

\* The days of a week, and now.getDay() of day 0 of the clock: a Saturday,
\* so that the clock reaches the start of a week.
DaysPerWeek == 7

FirstWeekday == 6

\* startOfWeek of getWeeklyStats: 00:00 of the Sunday on or before the day of t.
StartOfWeek(t) ==
  LET day == t \div TicksPerDay
      getDay == (day + FirstWeekday) % DaysPerWeek
  IN  (day - getDay) * TicksPerDay

\* A statistic that counts every record, whatever its week.
RECURSIVE getWeeklyStatsOfAll(_, _)
getWeeklyStatsOfAll(list, t) ==
  IF list = <<>> THEN 0 ELSE list[1].calories + getWeeklyStatsOfAll(Tail(list), t)

\* getWeeklyStats().totalCalories for the list and the time of a render:
\* the calories of the records whose timestamp is not before startOfWeek.
RECURSIVE getWeeklyStats(_, _)
getWeeklyStats(list, t) ==
  IF list = <<>> THEN 0
  ELSE (IF list[1].timestamp >= StartOfWeek(t) THEN list[1].calories ELSE 0)
         + getWeeklyStats(Tail(list), t)

\* The clock moves on.
Tick ==
  /\ now < MaxClock
  /\ now' = now + 1
  /\ UNCHANGED <<pageVars, dialogVars, sub, ownTimer, orphanTimers, submits, storeVars,
                 reported, lastDelete, sessionAdds>>
  /\ Quiet

\* The page is mounted (the application starts, or the user comes to the
\* page): its state is the initial one, the connection check is sent and
\* loadRecords runs with isSupabaseConnected = false.
MountRecordsPage ==
  /\ sub.pc = "idle"
  /\ route' = "records"
  /\ records' = LoadedFromLocal(<<>>)
  /\ isSupabaseConnected' = FALSE
  /\ connCheck' = TRUE
  /\ DialogClosed
  /\ ownTimer' = FALSE
  /\ orphanTimers' = 0
  /\ UNCHANGED <<now, sub, submits, storeVars, reported, lastDelete, sessionAdds>>
  /\ lastSubmit' = NoSubmit
  /\ pageLoad' = "mounted"
  /\ UNCHANGED <<searchVars, trialVars>>

\* router.push('/dashboard'): the page is left for another host of the dialog.
LeaveRecordsPage ==
  /\ route = "records"
  /\ ~showRecordEntry
  /\ sub.pc = "idle"
  /\ route' = "other"
  /\ records' = <<>>
  /\ isSupabaseConnected' = FALSE
  /\ connCheck' = FALSE
  /\ DialogClosed
  /\ ownTimer' = FALSE
  /\ orphanTimers' = 0
  /\ UNCHANGED <<now, sub, submits, storeVars, reported, lastDelete, sessionAdds>>
  /\ Quiet

\* checkTeaDatabaseConnection answers; a change of isSupabaseConnected runs
\* loadRecords again.  ok: the remote calls of loadRecords succeed.
ConnCheckReturn(connected, ok) ==
  /\ route = "records"
  /\ connCheck
  /\ connCheck' = FALSE
  /\ isSupabaseConnected' = connected
  /\ records' = IF connected THEN LoadedRecords(records, TRUE, ok) ELSE records
  /\ UNCHANGED <<now, route, dialogVars, sub, ownTimer, orphanTimers, submits, storeVars,
                 reported, lastDelete, sessionAdds>>
  /\ lastSubmit' = NoSubmit
  /\ pageLoad' = IF pageLoad = "mounted" THEN "loaded" ELSE "none"
  /\ UNCHANGED <<searchVars, trialVars>>

\* The "record a tea" buttons of the page: setShowRecordEntry(true).
OpenNew ==
  /\ route = "records"
  /\ ~showRecordEntry
  /\ showRecordEntry' = TRUE
  /\ hasOnSave' = TRUE
  /\ form' = FormFor(editingRecord)
  /\ UNCHANGED <<now, pageVars, editingRecord, isSaving, saveMessage, sub, ownTimer,
                 orphanTimers, submits, storeVars, reported, lastDelete>>
  /\ sessionAdds' = 0
  /\ Quiet

\* handleEditRecord
handleEditRecord(record) ==
  /\ route = "records"
  /\ ~showRecordEntry
  /\ editingRecord' = record
  /\ showRecordEntry' = TRUE
  /\ hasOnSave' = TRUE
  /\ form' = FormFor(record)
  /\ UNCHANGED <<now, pageVars, isSaving, saveMessage, sub, ownTimer, orphanTimers, submits,
                 storeVars, reported, lastDelete>>
  /\ sessionAdds' = 0
  /\ Quiet

\* handleDeleteRecord.  quota: localStorage.setItem throws; ok: the remote
\* delete succeeds.  (The removeItem of the old key 'milkTeaRecords' has no
\* effect on the state modelled here.)
handleDeleteRecord(recordId, quota, ok) ==
  LET updatedRecords == WithoutId(records, recordId) IN
  /\ route = "records"
  /\ ~showRecordEntry
  /\ records' = SortedByTimestamp(updatedRecords)
  /\ teaRecords' = IF quota THEN teaRecords ELSE LocalValid(updatedRecords)
  /\ remote' = IF ~quota /\ isSupabaseConnected /\ ok
               THEN SelectSeq(remote, LAMBDA row : row.id # recordId)
               ELSE remote
  /\ reported' = reported \ {recordId}
  /\ lastDelete' = [id |-> recordId, at |-> submits]
  /\ UNCHANGED sessionAdds
  /\ UNCHANGED <<now, route, isSupabaseConnected, connCheck, dialogVars, sub, ownTimer,
                 orphanTimers, submits, dbSeq>>
  /\ Quiet

(***************************************************************************)
(* The record-entry dialog.                                                *)
(***************************************************************************)
\* The records a host other than the records page can hand the dialog.
KnownRecords ==
  {teaRecords.recs[i] : i \in 1..Len(teaRecords.recs)} \cup
  {Formatted(remote[i]) : i \in 1..Len(remote)}

\* A host that gives the dialog no onSave opens it, for a new record or
\* with a record to edit.
OpenWithoutOnSave(record) ==
  /\ route = "other"
  /\ ~showRecordEntry
  /\ showRecordEntry' = TRUE
  /\ hasOnSave' = FALSE
  /\ editingRecord' = record
  /\ form' = FormFor(record)
  /\ UNCHANGED <<now, pageVars, isSaving, saveMessage, sub, ownTimer, orphanTimers, submits,
                 storeVars, reported, lastDelete>>
  /\ sessionAdds' = 0
  /\ Quiet

SetField(f) ==
  /\ showRecordEntry
  /\ form' = f
  /\ UNCHANGED <<now, pageVars, showRecordEntry, editingRecord, hasOnSave, isSaving,
                 saveMessage, sub, ownTimer, orphanTimers, submits, storeVars, reported, lastDelete, sessionAdds>>
  /\ Quiet

setCustomName(name) == SetField([form EXCEPT !.customName = name])

\* onDrinkSelect of BrandSearch
selectDrink(product) ==
  SetField([form EXCEPT !.selectedDrink = product, !.customName = product.name])

\* The cup size and the sugar level can be chosen once a drink is selected.
setCupSize(size) ==
  /\ form.selectedDrink # NoProduct
  /\ SetField([form EXCEPT !.cupSize = size])

setSugarLevel(level) ==
  /\ form.selectedDrink # NoProduct
  /\ SetField([form EXCEPT !.sugarLevel = Num(level)])

setMood(mood) == SetField([form EXCEPT !.mood = mood])

setNotes(notes) == SetField([form EXCEPT !.notes = notes])

\* onClose, from the cancel button or the X.
Cancel ==
  /\ showRecordEntry
  /\ DialogClosed
  /\ DialogLeftBehind
  /\ UNCHANGED <<now, pageVars, submits, storeVars, reported, lastDelete, sessionAdds>>
  /\ Quiet

\* The history entry of a handleSubmit call: the path it ended on ("onSave",
\* "remote", "local" or "failed"), what became of its remote save ("skipped",
\* "failed", "ok"), what the local storage threw ("none", "parse", "quota"),
\* the last message it set, and the record it stored.
Submitted(path, remoteSave, error, message, recordData, editing, f, stored) ==
  [path |-> path, remote |-> remoteSave, error |-> error, message |-> message,
   edit |-> editing # NoRecord, recordData |-> recordData,
   editing |-> editing, selectedDrink |-> f.selectedDrink, cupSize |-> f.cupSize,
   sugarLevel |-> f.sugarLevel, stored |-> stored]

\* The submit button is enabled and the model has room for what the call adds.
CanSubmit ==
  /\ showRecordEntry
  /\ ~isSaving
  /\ ~IsBlank(form.customName)
  /\ sub.pc = "idle"
  /\ Orphaned(orphanTimers, ownTimer) < MaxTimers
  /\ submits < MaxSubmits
  /\ editingRecord = NoRecord =>
       /\ Len(records) < MaxRecords
       /\ Len(teaRecords.recs) < MaxRecords
  /\ ~hasOnSave => Len(remote) < MaxRecords /\ dbSeq < MaxInserts

\* The list onSave of the page stores for updatedRecord.
OnSaveRecords(updatedRecord, t) ==
  IF editingRecord # NoRecord
  THEN ReplaceById(records, editingRecord.id, Merged(editingRecord, updatedRecord))
  ELSE <<[updatedRecord EXCEPT !.id = t, !.timestamp = t]>> \o records

\* The record onSave of the page stores for updatedRecord.
OnSaveStored(updatedRecord, t) ==
  IF editingRecord # NoRecord THEN Merged(editingRecord, updatedRecord)
  ELSE [updatedRecord EXCEPT !.id = t, !.timestamp = t]

\* handleSubmit with onSave: the page's onSave stores the record and closes
\* the dialog, handleSubmit sets the delayed close.  quota: the setItem of
\* onSave throws, after setRecords, into the catch of handleSubmit.
SubmitWithOnSave(quota) ==
  LET recordData == RecordData(form, editingRecord, now)
      updatedRecords == OnSaveRecords(recordData, now)
      stored == OnSaveStored(recordData, now)
  IN
  /\ CanSubmit
  /\ hasOnSave
  /\ records' = SortedByTimestamp(updatedRecords)
  /\ IF quota
     THEN /\ isSaving' = FALSE
          /\ saveMessage' = MsgFailed
          /\ lastSubmit' = Submitted("failed", "skipped", "quota", MsgFailed, recordData,
                                     editingRecord, form, NoRecord)
          /\ UNCHANGED <<teaRecords, showRecordEntry, editingRecord, hasOnSave, form,
                         orphanTimers, reported, lastDelete>>
     ELSE /\ teaRecords' = LocalValid(updatedRecords)
          /\ DialogClosed
          /\ orphanTimers' = Orphaned(orphanTimers, TRUE)
          /\ lastSubmit' = Submitted("onSave", "skipped", "none",
                                     IF editingRecord # NoRecord THEN MsgUpdated ELSE MsgSaved,
                                     recordData, editingRecord, form, stored)
          /\ reported' = reported \cup {stored.id}
          /\ UNCHANGED lastDelete
  /\ sessionAdds' = IF editingRecord = NoRecord THEN sessionAdds + 1 ELSE sessionAdds
  /\ submits' = submits + 1
  /\ pageLoad' = "none"
  /\ UNCHANGED <<now, route, isSupabaseConnected, connCheck, sub, ownTimer, remote, dbSeq,
                 searchVars, trialVars>>

\* handleSubmit without onSave, up to its first await.
SubmitWithoutOnSave ==
  LET recordData == RecordData(form, editingRecord, now) IN
  /\ CanSubmit
  /\ ~hasOnSave
  /\ isSaving' = TRUE
  /\ saveMessage' = MsgNone
  /\ sub' = [pc |-> "awaitUser", recordData |-> recordData, editing |-> editingRecord,
             form |-> form, recordedAt |-> 0, orphan |-> FALSE]
  /\ submits' = submits + 1
  /\ Quiet
  /\ UNCHANGED <<now, pageVars, showRecordEntry, editingRecord, hasOnSave, form, ownTimer,
                 orphanTimers, storeVars, reported, lastDelete, sessionAdds>>

\* The end of a handleSubmit call that waited: the message it sets, and
\* the delayed close when closes is true, reach the dialog that made the
\* call if that dialog is still there.
SubmitEnds(message, closes) ==
  /\ sub' = NoSub
  /\ IF sub.orphan
     THEN /\ orphanTimers' = Orphaned(orphanTimers, closes)
          /\ UNCHANGED <<ownTimer, isSaving, saveMessage>>
     ELSE /\ ownTimer' = (closes \/ ownTimer)
          /\ saveMessage' = message
          /\ isSaving' = IF closes THEN isSaving ELSE FALSE
          /\ UNCHANGED orphanTimers
  /\ pageLoad' = "none"
  /\ UNCHANGED <<now, pageVars, showRecordEntry, editingRecord, hasOnSave, form, submits,
                 searchVars, trialVars>>

\* A local branch that puts the record in front of the list for an edit too.
LocalUpdatedAdding(existingRecords, recordData, editing) ==
  <<recordData>> \o existingRecords

\* The list the local branch of handleSubmit writes.
LocalUpdated(existingRecords, recordData, editing) ==
  IF editing # NoRecord THEN ReplaceById(existingRecords, editing.id, recordData)
  ELSE <<recordData>> \o existingRecords

\* A local branch whose failure sets the delayed close as a success does.
LocalFallbackClosing(quota) ==
  IF teaRecords.state = "malformed" \/ quota
  THEN /\ SubmitEnds(MsgFailed, TRUE)
       /\ lastSubmit' = Submitted("failed", "failed",
                                  IF teaRecords.state = "malformed" THEN "parse" ELSE "quota",
                                  MsgFailed, sub.recordData, sub.editing, sub.form, NoRecord)
       /\ UNCHANGED <<storeVars, reported, lastDelete, sessionAdds>>
  ELSE /\ teaRecords' = LocalValid(LocalUpdated(teaRecords.recs, sub.recordData, sub.editing))
       /\ SubmitEnds(IF sub.editing # NoRecord THEN MsgUpdated ELSE MsgSavedLocal, TRUE)
       /\ lastSubmit' = Submitted("local", "failed", "none",
                                  IF sub.editing # NoRecord THEN MsgUpdated ELSE MsgSavedLocal,
                                  sub.recordData, sub.editing, sub.form, sub.recordData)
       /\ reported' = reported \cup {sub.recordData.id}
       /\ UNCHANGED lastDelete
       /\ sessionAdds' = IF sub.editing = NoRecord /\ ~sub.orphan THEN sessionAdds + 1
                         ELSE sessionAdds
       /\ UNCHANGED <<remote, dbSeq>>

\* The local branch of handleSubmit.  JSON.parse throws on a list that does
\* not parse and setItem throws when quota is true: both end in the outer catch.
LocalFallback(quota) ==
  IF teaRecords.state = "malformed" \/ quota
  THEN /\ SubmitEnds(MsgFailed, FALSE)
       /\ lastSubmit' = Submitted("failed", "failed",
                                  IF teaRecords.state = "malformed" THEN "parse" ELSE "quota",
                                  MsgFailed, sub.recordData, sub.editing, sub.form, NoRecord)
       /\ UNCHANGED <<storeVars, reported, lastDelete, sessionAdds>>
  ELSE /\ teaRecords' = LocalValid(LocalUpdated(teaRecords.recs, sub.recordData, sub.editing))
       /\ SubmitEnds(IF sub.editing # NoRecord THEN MsgUpdated ELSE MsgSavedLocal, TRUE)
       /\ lastSubmit' = Submitted("local", "failed", "none",
                                  IF sub.editing # NoRecord THEN MsgUpdated ELSE MsgSavedLocal,
                                  sub.recordData, sub.editing, sub.form, sub.recordData)
       /\ reported' = reported \cup {sub.recordData.id}
       /\ UNCHANGED lastDelete
       /\ sessionAdds' = IF sub.editing = NoRecord /\ ~sub.orphan THEN sessionAdds + 1
                         ELSE sessionAdds
       /\ UNCHANGED <<remote, dbSeq>>

\* getCurrentUserIdClient answers: with the user id, and saveTeaRecord is
\* called with recorded_at = now, or by throwing, which the inner catch
\* turns into the local branch.
UserIdReturn(ok, quota) ==
  /\ sub.pc = "awaitUser"
  /\ IF ok
     THEN /\ sub' = [sub EXCEPT !.pc = "awaitSave", !.recordedAt = now]
          /\ Quiet
          /\ UNCHANGED <<now, pageVars, dialogVars, ownTimer, orphanTimers, submits, storeVars,
                         reported, lastDelete, sessionAdds>>
     ELSE LocalFallback(quota)

\* saveTeaRecord answers: with the inserted row, or with null when the
\* insert failed, which leads to the local branch.
SaveReturn(ok, quota) ==
  /\ sub.pc = "awaitSave"
  /\ IF ok
     THEN LET row == InsertedRow(DbIdBase + dbSeq + 1, sub.recordData, sub.form,
                                 sub.recordedAt)
          IN  /\ remote' = Append(remote, row)
              /\ dbSeq' = dbSeq + 1
              /\ SubmitEnds(MsgSavedDb, TRUE)
              /\ lastSubmit' = Submitted("remote", "ok", "none", MsgSavedDb, sub.recordData,
                                         sub.editing, sub.form, Formatted(row))
              /\ reported' = reported \cup {row.id}
              /\ UNCHANGED lastDelete
              /\ sessionAdds' = IF sub.orphan THEN sessionAdds ELSE sessionAdds + 1
              /\ UNCHANGED teaRecords
     ELSE LocalFallback(quota)

\* The delayed close of the mounted dialog: setIsSaving(false), onClose().
OwnTimerFires ==
  /\ ownTimer
  /\ DialogClosed
  /\ ownTimer' = FALSE
  /\ UNCHANGED <<now, pageVars, sub, orphanTimers, submits, storeVars, reported, lastDelete, sessionAdds>>
  /\ Quiet

\* A delayed close set by a dialog that is gone: its onClose closes the
\* dialog that is open now.
OrphanTimerFires ==
  /\ orphanTimers > 0
  /\ DialogClosed
  /\ ownTimer' = FALSE
  /\ orphanTimers' = Orphaned(orphanTimers - 1, ownTimer)
  /\ sub' = IF sub.pc # "idle" THEN [sub EXCEPT !.orphan = TRUE] ELSE sub
  /\ UNCHANGED <<now, pageVars, submits, storeVars, reported, lastDelete, sessionAdds>>
  /\ Quiet

(***************************************************************************)
(* The specification of the records page and the dialog.                   *)
(***************************************************************************)
\* The records page right after it is mounted, the dialog closed.
RecordInit ==
  /\ now = 1
  /\ route = "records"
  /\ records = <<>>
  /\ isSupabaseConnected = FALSE
  /\ connCheck = TRUE
  /\ showRecordEntry = FALSE
  /\ editingRecord = NoRecord
  /\ hasOnSave = TRUE
  /\ form = InitialForm
  /\ isSaving = FALSE
  /\ saveMessage = MsgNone
  /\ sub = NoSub
  /\ ownTimer = FALSE
  /\ orphanTimers = 0
  /\ submits = 0
  /\ teaRecords \in {LocalAbsent, LocalMalformed}
  /\ remote = <<>>
  /\ dbSeq = 0
  /\ lastSubmit = NoSubmit
  /\ pageLoad = "mounted"
  /\ reported = {}
  /\ lastDelete = NoDelete
  /\ sessionAdds = 0

NoResults == [seq |-> 0, query |-> <<>>, products |-> <<>>]

\* The search box empty, no search made.
SearchInit ==
  /\ searchQuery = <<>>
  /\ searchSeq = 0
  /\ inFlight = {}
  /\ results = NoResults
  /\ recommendations = NoRecommendations
  /\ completed = 0

NoEstimate == [calories |-> 0, cupSize |-> "medium", sugarLevel |-> 0, done |-> FALSE,
               result |-> 0]

NoSweetness == [p |-> 0, q |-> 0, by |-> "none", labelP |-> "", labelQ |-> ""]

NoScorer == [searchQuery |-> <<>>, searchResults |-> <<>>, done |-> FALSE,
             recommendations |-> NoRecommendations]

NoLookup == [query |-> <<>>, limit |-> 0, ok |-> TRUE, done |-> FALSE, found |-> <<>>]
(***************************************************************************)
(* The weekly budget: the records page (app/my-records/page.tsx) and the   *)
(* BudgetManager with a budget state of its own (unnamed/part_000, which   *)
(* is that version of components/budget-manager.tsx).  A number is kept    *)
(* as the decimal it is: a sign, the whole part and the digits after the   *)
(* point without trailing zeros; a text is a sequence of characters.       *)
(***************************************************************************)
Digits == <<"0", "1", "2", "3", "4", "5", "6", "7", "8", "9">>

IsDigit(c) == \E i \in 1..Len(Digits) : Digits[i] = c

DigitOf(c) == (CHOOSE i \in 1..Len(Digits) : Digits[i] = c) - 1

Dec(neg, whole, frac) == [nan |-> FALSE, neg |-> neg, whole |-> whole, frac |-> frac]

NaN == [nan |-> TRUE, neg |-> FALSE, whole |-> 0, frac |-> <<>>]

RECURSIVE LeadingDigits(_)
LeadingDigits(text) ==
  IF text = <<>> \/ ~IsDigit(text[1]) THEN <<>>
  ELSE <<text[1]>> \o LeadingDigits(Tail(text))

RECURSIVE DigitsValue(_)
DigitsValue(ds) ==
  IF ds = <<>> THEN 0
  ELSE 10 * DigitsValue(SubSeq(ds, 1, Len(ds) - 1)) + DigitOf(ds[Len(ds)])

RECURSIVE DigitsOfNat(_)
DigitsOfNat(n) ==
  IF n < 10 THEN <<Digits[n + 1]>>
  ELSE DigitsOfNat(n \div 10) \o <<Digits[(n % 10) + 1]>>

RECURSIVE WithoutTrailingZeros(_)
WithoutTrailingZeros(ds) ==
  IF ds # <<>> /\ ds[Len(ds)] = "0" THEN WithoutTrailingZeros(SubSeq(ds, 1, Len(ds) - 1))
  ELSE ds

\* Number(text) for the value of an <input type="number">: the empty text
\* is 0, a decimal literal is its value, anything else is NaN.
NumberOf(text) ==
  LET neg == text # <<>> /\ text[1] = "-"
      body == IF neg THEN Tail(text) ELSE text
      whole == LeadingDigits(body)
      rest == SubSeq(body, Len(whole) + 1, Len(body))
      frac == IF rest = <<>> THEN <<>> ELSE Tail(rest)
  IN  IF text = <<>> THEN Dec(FALSE, 0, <<>>)
      ELSE IF rest = <<>>
      THEN (IF whole = <<>> THEN NaN ELSE Dec(neg, DigitsValue(whole), <<>>))
      ELSE IF rest[1] = "." /\ LeadingDigits(frac) = frac /\ (whole # <<>> \/ frac # <<>>)
      THEN Dec(neg, DigitsValue(whole), WithoutTrailingZeros(frac))
      ELSE NaN

\* parseInt(text): the sign and the digits up to the first character that
\* is no digit; NaN when there is no digit.
parseInt(text) ==
  LET neg == text # <<>> /\ text[1] = "-"
      body == IF neg THEN Tail(text) ELSE text
      whole == LeadingDigits(body)
  IN  IF whole = <<>> THEN NaN ELSE Dec(neg, DigitsValue(whole), <<>>)

IsZero(d) == ~d.nan /\ d.whole = 0 /\ d.frac = <<>>

\* d.toString(), for the numbers that are written without an exponent.
toString(d) ==
  IF d.nan THEN <<"N", "a", "N">>
  ELSE IF IsZero(d) THEN <<"0">>
  ELSE (IF d.neg THEN <<"-">> ELSE <<>>) \o DigitsOfNat(d.whole)
         \o (IF d.frac = <<>> THEN <<>> ELSE <<".">> \o d.frac)

\* d > 0
Positive(d) == ~d.nan /\ ~d.neg /\ ~IsZero(d)

\* d <= n, for a natural number n
AtMost(d, n) == ~d.nan /\ (d.neg \/ d.whole < n \/ (d.whole = n /\ d.frac = <<>>))

\* d taken as a condition: 0 and NaN are falsy
Truthy(d) == ~d.nan /\ ~IsZero(d)

\* useState(2000) of the page, `initialBudget || 2000` of the manager.
DefaultBudget == 2000

\* The upper limit of saveBudget.
MaxBudget == 10000

\* localStorage.getItem of a key that was never set: null, falsy as the
\* empty text is; toString never gives the empty text.
NoItem == <<>>

\* The effect of the manager on [initialBudget]: the stored
\* 'weeklyCalorieBudget' read with parseInt when there is one, the prop
\* when it is truthy, the current state otherwise.
BudgetEffect(current, initialBudget, weeklyCalorieBudget) ==
  IF weeklyCalorieBudget # NoItem THEN parseInt(weeklyCalorieBudget)
  ELSE IF Truthy(initialBudget) THEN initialBudget
  ELSE current

\* The page and the manager after they are mounted with the two stored
\* items: the first render with the default, the effect of the manager,
\* the effect of the page, which reads 'weeklyBudget' with parseInt, and
\* the effect of the manager again when the prop has changed.
BudgetMounted(weeklyBudgetItem, weeklyCalorieBudgetItem) ==
  LET default == Dec(FALSE, DefaultBudget, <<>>)
      first == BudgetEffect(default, default, weeklyCalorieBudgetItem)
      page == IF weeklyBudgetItem # NoItem THEN parseInt(weeklyBudgetItem) ELSE default
      manager == IF page # default THEN BudgetEffect(first, page, weeklyCalorieBudgetItem)
                 ELSE first
  IN  [page |-> page, manager |-> manager, tempBudget |-> manager, isEditing |-> FALSE,
       weeklyBudgetItem |-> weeklyBudgetItem,
       weeklyCalorieBudgetItem |-> weeklyCalorieBudgetItem]

\* The texts typed into the budget input.
BudgetInputs ==
  { <<>>, <<"0">>, <<"0", ".", "5">>, <<"1">>, <<"1", ".", "5">>, <<"1", "0", "0">>,
    <<"1", "5", "0", "0">>, <<"1", "5", "0", "0", ".", "5">>, <<"2", "0", "0", "0">>,
    <<"9", "9", "9", "9", ".", "5">>, <<"1", "0", "0", "0", "0">>,
    <<"1", "0", "0", "0", "0", ".", "5">>, <<"1", "0", "0", "0", "1">>, <<"-", "1">> }

\* No trial is made, except the one of the variable named.
TrialsIdleExcept(trial) ==
  /\ IF trial = "estimate" THEN TRUE ELSE estimate = NoEstimate
  /\ IF trial = "sweetness" THEN TRUE ELSE sweetness = NoSweetness
  /\ IF trial = "scorer" THEN TRUE ELSE scorer = NoScorer
  /\ IF trial = "lookup" THEN TRUE ELSE lookup = NoLookup
  /\ budget = BudgetMounted(NoItem, NoItem)

Init ==
  /\ RecordInit
  /\ SearchInit
  /\ TrialsIdleExcept("none")

Next ==
  \/ Tick
  \/ MountRecordsPage
  \/ LeaveRecordsPage
  \/ \E connected \in BOOLEAN, ok \in BOOLEAN : ConnCheckReturn(connected, ok)
  \/ OpenNew
  \/ \E i \in 1..Len(records) : handleEditRecord(records[i])
  \/ \E id \in Ids(records) \cup Ids(teaRecords.recs) \cup {0}, quota \in BOOLEAN, ok \in BOOLEAN :
       handleDeleteRecord(id, quota, ok)
  \/ \E record \in KnownRecords \cup {NoRecord} : OpenWithoutOnSave(record)
  \/ \E name \in Names : setCustomName(name)
  \/ \E product \in Products : selectDrink(product)
  \/ Cancel
  \/ \E quota \in BOOLEAN : SubmitWithOnSave(quota)
  \/ SubmitWithoutOnSave
  \/ \E ok \in BOOLEAN, quota \in BOOLEAN : UserIdReturn(ok, quota)
  \/ \E ok \in BOOLEAN, quota \in BOOLEAN : SaveReturn(ok, quota)
  \/ OwnTimerFires
  \/ OrphanTimerFires

Spec == Init /\ [][Next]_vars

(***************************************************************************)
(* The specification of the dialog on the records page, with every field   *)
(* of the form.                                                            *)
(***************************************************************************)
FormNext ==
  \/ OpenNew
  \/ \E i \in 1..Len(records) : handleEditRecord(records[i])
  \/ \E name \in Names : setCustomName(name)
  \/ \E product \in Products : selectDrink(product)
  \/ \E size \in CupChoices : setCupSize(size)
  \/ \E level \in SugarChoices : setSugarLevel(level)
  \/ \E mood \in Moods : setMood(mood)
  \/ \E notes \in NotesTexts : setNotes(notes)
  \/ Cancel
  \/ \E quota \in BOOLEAN :
       /\ editingRecord = NoRecord => records = <<>>   \* one record is enough here
       /\ SubmitWithOnSave(quota)
  \/ OrphanTimerFires

FormSpec == Init /\ [][FormNext]_vars

(***************************************************************************)
(* The specification of saving alone: the records page with its dialog,   *)
(* and the dialog in a host that gives it no onSave; nothing is deleted    *)
(* and no product is picked.                                               *)
(***************************************************************************)
SaveNext ==
  \/ Tick
  \/ MountRecordsPage
  \/ LeaveRecordsPage
  \/ \E connected \in BOOLEAN, ok \in BOOLEAN : ConnCheckReturn(connected, ok)
  \/ OpenNew
  \/ \E i \in 1..Len(records) : handleEditRecord(records[i])
  \/ \E record \in KnownRecords \cup {NoRecord} : OpenWithoutOnSave(record)
  \/ \E name \in Names : setCustomName(name)
  \/ Cancel
  \/ \E quota \in BOOLEAN : SubmitWithOnSave(quota)
  \/ SubmitWithoutOnSave
  \/ \E ok \in BOOLEAN, quota \in BOOLEAN : UserIdReturn(ok, quota)
  \/ \E ok \in BOOLEAN, quota \in BOOLEAN : SaveReturn(ok, quota)
  \/ OwnTimerFires
  \/ OrphanTimerFires

SaveSpec == Init /\ [][SaveNext]_vars

\* Saving with the scheduling the code relies on: each remote call answers
\* or throws in the end, and a timer that was set fires.
SaveFairness ==
  /\ WF_vars(\E ok \in BOOLEAN, quota \in BOOLEAN : UserIdReturn(ok, quota))
  /\ WF_vars(\E ok \in BOOLEAN, quota \in BOOLEAN : SaveReturn(ok, quota))
  /\ WF_vars(OwnTimerFires)
  /\ WF_vars(OrphanTimerFires)

FairSaveSpec == SaveSpec /\ SaveFairness

\* The records page alone: its records are added, edited and deleted there.
PageNext ==
  \/ Tick
  \/ MountRecordsPage
  \/ \E connected \in BOOLEAN, ok \in BOOLEAN : ConnCheckReturn(connected, ok)
  \/ OpenNew
  \/ \E i \in 1..Len(records) : handleEditRecord(records[i])
  \/ \E id \in Ids(records) \cup {0}, quota \in BOOLEAN, ok \in BOOLEAN :
       handleDeleteRecord(id, quota, ok)
  \/ \E name \in Names : setCustomName(name)
  \/ Cancel
  \/ \E quota \in BOOLEAN : SubmitWithOnSave(quota)
  \/ OrphanTimerFires

PageSpec == Init /\ [][PageNext]_vars

(***************************************************************************)
(* The product search of the dialog.  BrandSearch (components/             *)
(* brand-search.tsx) issues the calls and applies their results; it is     *)
(* modelled as the specification describes it: the result of a call is     *)
(* applied only if no query was issued after it, and a failed remote       *)
(* lookup falls back to the static list.                                   *)
(***************************************************************************)
MaxSearches == 3

SearchQueries == { <<>>, <<" ">>, <<"t">>, <<"T", "e">>, <<"a">>, <<"e", "e">> }

\* A call that gives BrandSearch what searchTeaProducts returns and nothing else.
SearchOutcomeOfRemote(query, ok) == searchTeaProducts(query, DefaultSearchLimit, ok)

\* The products a call for query gives BrandSearch.
SearchOutcome(query, ok) ==
  IF ok THEN searchTeaProducts(query, DefaultSearchLimit, TRUE)
  ELSE searchMockProductsIntelligent(query, DefaultSearchLimit)

\* The user changes the query: a blank query clears the results, another
\* one issues a search call; SmartRecommendations gets the new query and
\* its effect runs.
setSearchQuery(query) ==
  /\ searchSeq < MaxSearches
  /\ query # searchQuery
  /\ searchQuery' = query
  /\ searchSeq' = searchSeq + 1
  /\ IF Trim(query) = <<>>
     THEN /\ results' = [seq |-> searchSeq + 1, query |-> query, products |-> <<>>]
          /\ UNCHANGED inFlight
     ELSE /\ inFlight' = inFlight \cup {[seq |-> searchSeq + 1, query |-> query]}
          /\ UNCHANGED results
  /\ recommendations' = SmartRecommendations(recommendations, query)
  /\ completed' = 0
  /\ UNCHANGED <<recordVars, trialVars>>

\* A search call answers: its result is applied if its query is the one
\* issued last, and discarded otherwise.
searchReturns(call, ok) ==
  /\ call \in inFlight
  /\ inFlight' = inFlight \ {call}
  /\ results' = IF call.seq = searchSeq
                THEN [seq |-> call.seq, query |-> call.query,
                      products |-> SearchOutcome(call.query, ok)]
                ELSE results
  /\ completed' = call.seq
  /\ UNCHANGED <<searchQuery, searchSeq, recommendations, recordVars, trialVars>>

SearchNext ==
  \/ \E query \in SearchQueries : setSearchQuery(query)
  \/ \E call \in inFlight, ok \in BOOLEAN : searchReturns(call, ok)

SearchSpec == Init /\ [][SearchNext]_vars

(***************************************************************************)
(* Trials of the calorie estimator: the total the dialog shows for a       *)
(* selected drink of some base calories, a cup size and a sugar level.     *)
(***************************************************************************)
BaseStep == 5

MaxBaseSteps == 40

MaxSugarLevel == 100

EstimatorInit ==
  /\ RecordInit
  /\ SearchInit
  /\ TrialsIdleExcept("estimate")
  /\ estimate \in [calories : {k * BaseStep : k \in 0..MaxBaseSteps},
                    cupSize : CupSizes \cup {"venti"},
                    sugarLevel : 0..MaxSugarLevel,
                    done : {FALSE}, result : {0}]

\* The dialog shows calculateTotalCalories() for the drink and the choices.
showTotalCalories ==
  /\ ~estimate.done
  /\ estimate' =
       [estimate EXCEPT
          !.done = TRUE,
          !.result = calculateTotalCalories(Product(1, "oolong latte", "heytea",
                                                    estimate.calories, 45),
                                            estimate.cupSize, Num(estimate.sugarLevel))]
  /\ UNCHANGED <<recordVars, searchVars, sweetness, scorer, lookup, budget>>

EstimatorNext == showTotalCalories

EstimatorSpec == EstimatorInit /\ [][EstimatorNext]_vars

(***************************************************************************)
(* Trials of the sweetness labels: two percents are labelled by the        *)
(* dialog's getSugarLevelName, as handleSubmit does for the record it      *)
(* assembles, or by the getSugarLevelName of the records page.             *)
(***************************************************************************)
SweetnessInit ==
  /\ RecordInit
  /\ SearchInit
  /\ TrialsIdleExcept("sweetness")
  /\ sweetness \in [p : 0..MaxSugarLevel, q : 0..MaxSugarLevel, by : {"none"},
                     labelP : {""}, labelQ : {""}]

\* recordData.sugarLevel of handleSubmit.
labelOfDialog ==
  /\ sweetness.by = "none"
  /\ sweetness' = [sweetness EXCEPT !.by = "dialog",
                                    !.labelP = getSugarLevelName(Num(sweetness.p)),
                                    !.labelQ = getSugarLevelName(Num(sweetness.q))]
  /\ UNCHANGED <<recordVars, searchVars, estimate, scorer, lookup, budget>>

\* The label the records page has for a level.
labelOfPage ==
  /\ sweetness.by = "none"
  /\ sweetness' = [sweetness EXCEPT !.by = "page",
                                    !.labelP = getSugarLevelNameOfPage(sweetness.p),
                                    !.labelQ = getSugarLevelNameOfPage(sweetness.q)]
  /\ UNCHANGED <<recordVars, searchVars, estimate, scorer, lookup, budget>>

SweetnessNext ==
  \/ labelOfDialog
  \/ labelOfPage

SweetnessSpec == SweetnessInit /\ [][SweetnessNext]_vars

(***************************************************************************)
(* Trials of the recommendation effect: the effect of SmartRecommendations *)
(* on a query whose search gives some list of products.  The products of   *)
(* a list have the ids 1, 2, ... in list order, or all the id 1.           *)
(***************************************************************************)
MaxResults == 3

ResultBrands == { <<"A">>, <<"E">> }

ResultCalories == {10, 20, 30}

ResultRatings == {42, 47}

\* The lists of up to MaxResults products of different ids, and the lists of
\* two entries of one id (a product found twice), for which the scoring step
\* has no candidate although more than one result was found.
ResultLists ==
  LET Attributes == [brand : ResultBrands, calories : ResultCalories, rating : ResultRatings]
      ListOf(f, n, Id(_)) ==
        [i \in 1..n |-> TeaProduct(Id(i), <<"t">>, f[i].brand, <<>>, f[i].calories,
                                    f[i].rating)]
  IN  UNION { { ListOf(f, n, LAMBDA i : i) : f \in [1..n -> Attributes] } :
              n \in 0..MaxResults }
        \cup { ListOf(f, 2, LAMBDA i : 1) : f \in [1..2 -> Attributes] }

\* The recommendations the effect sets for a query whose search gives searchResults.
EffectOn(query, searchResults) ==
  IF Trim(query) = <<>> THEN NoRecommendations
  ELSE IF Len(searchResults) = 0 THEN NoRecommendations
  ELSE RecommendationsOf(searchResults)

ScorerInit ==
  /\ RecordInit
  /\ SearchInit
  /\ TrialsIdleExcept("scorer")
  /\ scorer \in [searchQuery : { <<>>, <<" ">>, <<"t">> }, searchResults : ResultLists,
                  done : {FALSE}, recommendations : {NoRecommendations}]

\* The effect runs.
recommend ==
  /\ ~scorer.done
  /\ scorer' = [scorer EXCEPT !.done = TRUE,
                              !.recommendations =
                                EffectOn(scorer.searchQuery, scorer.searchResults)]
  /\ UNCHANGED <<recordVars, searchVars, estimate, sweetness, lookup, budget>>

ScorerNext == recommend

ScorerSpec == ScorerInit /\ [][ScorerNext]_vars

(***************************************************************************)
(* Trials of the catalog search: searchTeaProducts for a query, a limit    *)
(* and a remote store that answers or fails.                               *)
(***************************************************************************)
MaxQueryLen == 2

MaxLimit == 3

QueryChars == {"t", "a", "E", " ", "_", "%"}

LookupQueries == UNION { [1..n -> QueryChars] : n \in 0..MaxQueryLen }

LookupInit ==
  /\ RecordInit
  /\ SearchInit
  /\ TrialsIdleExcept("lookup")
  /\ lookup \in [query : LookupQueries, limit : 0..MaxLimit, ok : BOOLEAN, done : {FALSE},
                  found : {<<>>}]

\* await searchTeaProducts(query, limit)
lookUp ==
  /\ ~lookup.done
  /\ lookup' = [lookup EXCEPT !.done = TRUE,
                              !.found = searchTeaProducts(lookup.query, lookup.limit,
                                                          lookup.ok)]
  /\ UNCHANGED <<recordVars, searchVars, estimate, sweetness, scorer, budget>>

LookupNext == lookUp

LookupSpec == LookupInit /\ [][LookupNext]_vars

(***************************************************************************)
(* The actions on the weekly budget.                                       *)
(***************************************************************************)
\* The page is loaded again with what is stored.
MountBudget ==
  /\ budget' = BudgetMounted(budget.weeklyBudgetItem, budget.weeklyCalorieBudgetItem)
  /\ UNCHANGED <<recordVars, searchVars, estimate, sweetness, scorer, lookup>>

\* The settings button: setIsEditing(true).
openBudgetEditor ==
  /\ budget' = [budget EXCEPT !.isEditing = TRUE]
  /\ UNCHANGED <<recordVars, searchVars, estimate, sweetness, scorer, lookup>>

\* onChange of the input: setTempBudget(Number(e.target.value)).
setTempBudget(text) ==
  /\ budget.isEditing
  /\ budget' = [budget EXCEPT !.tempBudget = NumberOf(text)]
  /\ UNCHANGED <<recordVars, searchVars, estimate, sweetness, scorer, lookup>>

\* handleBudgetChange of the page, and the effect of the manager that the
\* changed prop sets off.
handleBudgetChange(state, newBudget) ==
  LET item == toString(newBudget)
      afterChange == [state EXCEPT !.page = newBudget, !.weeklyBudgetItem = item]
      seen == BudgetEffect(state.manager, newBudget, state.weeklyCalorieBudgetItem)
  IN  IF newBudget # state.page
      THEN [afterChange EXCEPT !.manager = seen, !.tempBudget = seen]
      ELSE afterChange

\* saveBudget
saveBudget ==
  /\ budget.isEditing
  /\ budget' =
       IF Positive(budget.tempBudget) /\ AtMost(budget.tempBudget, MaxBudget)
       THEN handleBudgetChange([budget EXCEPT !.manager = budget.tempBudget,
                                              !.weeklyCalorieBudgetItem =
                                                toString(budget.tempBudget),
                                              !.isEditing = FALSE],
                               budget.tempBudget)
       ELSE budget
  /\ UNCHANGED <<recordVars, searchVars, estimate, sweetness, scorer, lookup>>

\* cancelEdit
cancelEdit ==
  /\ budget.isEditing
  /\ budget' = [budget EXCEPT !.tempBudget = budget.manager, !.isEditing = FALSE]
  /\ UNCHANGED <<recordVars, searchVars, estimate, sweetness, scorer, lookup>>

BudgetNext ==
  \/ MountBudget
  \/ openBudgetEditor
  \/ \E text \in BudgetInputs : setTempBudget(text)
  \/ saveBudget
  \/ cancelEdit

BudgetSpec == Init /\ [][BudgetNext]_vars

(***************************************************************************)
(* The claims about saving and deleting records.                           *)
(***************************************************************************)
\* C1: a record saved with a product picked from the search carries that
\* product's brand and the calories the estimator gives for the product,
\* the cup size and the sugar level; a record saved without a product
\* carries the brand "custom" and 200 calories.
C1_RecordFromSelection ==
  lastSubmit.path # "none" =>
    IF lastSubmit.selectedDrink # NoProduct
    THEN /\ lastSubmit.recordData.brand = lastSubmit.selectedDrink.brand
         /\ lastSubmit.sugarLevel.num =>
              lastSubmit.recordData.calories =
                EstimateCalories(lastSubmit.selectedDrink.calories, lastSubmit.cupSize,
                                 lastSubmit.sugarLevel.n)
    ELSE /\ lastSubmit.recordData.brand = CustomBrand
         /\ lastSubmit.recordData.calories = DefaultCalories

\* C2: a saved edit keeps the id, the date and the timestamp of the record
\* that was edited, in the list in memory and in every store it is written to.
C2_EditKeepsIdentity ==
  (lastSubmit.edit /\ lastSubmit.path \in {"onSave", "remote", "local"}) =>
    LET old == lastSubmit.editing
        Kept(rec) == /\ rec.id = old.id
                     /\ rec.date = old.date
                     /\ rec.timestamp = old.timestamp
    IN  /\ Kept(lastSubmit.stored)
        /\ lastSubmit.path = "onSave" =>
             /\ \A i \in 1..Len(records) :
                  records[i].id = old.id => records[i] = lastSubmit.stored
             /\ \A i \in 1..Len(teaRecords.recs) :
                  teaRecords.recs[i].id = old.id => teaRecords.recs[i] = lastSubmit.stored
        /\ lastSubmit.path = "local" =>
             \A i \in 1..Len(teaRecords.recs) :
               teaRecords.recs[i].id = old.id => teaRecords.recs[i] = lastSubmit.stored
        /\ lastSubmit.path = "remote" =>
             \E i \in 1..Len(remote) : Kept(Formatted(remote[i]))

\* C3: a new record gets an id no record of the list has: saved to a list
\* of records that were all saved with success and that have pairwise
\* different ids, it leaves a list of records with pairwise different ids,
\* also when the clock shows the millisecond of an earlier save.
C3_UniqueIds ==
  [][(/\ lastSubmit'.path = "onSave"
      /\ ~lastSubmit'.edit
      /\ Ids(records) \subseteq reported
      /\ \A i, j \in 1..Len(records) : i # j => records[i].id # records[j].id) =>
       \A i, j \in 1..Len(records') : i # j => records'[i].id # records'[j].id
    ]_recordVars

\* C4: the save of an edit that goes through the fallback chain adds no
\* record to the remote store nor to the local store, and leaves at most
\* one record with the edited id in each.
C4_EditReplaces ==
  [][(lastSubmit'.edit /\ lastSubmit'.path \in {"remote", "local"}) =>
       LET id == lastSubmit'.editing.id IN
       /\ Len(remote') = Len(remote)
       /\ Len(teaRecords'.recs) = Len(teaRecords.recs)
       /\ Cardinality({i \in 1..Len(remote') : remote'[i].id = id}) <= 1
       /\ Cardinality({i \in 1..Len(teaRecords'.recs) : teaRecords'.recs[i].id = id}) <= 1
    ]_recordVars

\* C5: when the remote save fails and the local storage works, the record is
\* saved to the local list (a new record is added in front, an edit replaces
\* the record with its id and adds none), the success message is shown and
\* the delayed close is set, and the delayed close closes the dialog.
C5_LocalFallback ==
  [][/\ (lastSubmit'.remote = "failed" /\ lastSubmit'.error = "none") =>
          /\ lastSubmit'.path = "local"
          /\ teaRecords'.state = "valid"
          /\ IF sub.editing = NoRecord
             THEN teaRecords'.recs = <<sub.recordData>> \o teaRecords.recs
             ELSE /\ Len(teaRecords'.recs) = Len(teaRecords.recs)
                  /\ \A i \in 1..Len(teaRecords.recs) :
                       teaRecords'.recs[i] =
                         IF teaRecords.recs[i].id = sub.editing.id
                         THEN sub.recordData ELSE teaRecords.recs[i]
          /\ remote' = remote
          /\ lastSubmit'.message \in SuccessMessages
          /\ IF sub.orphan
             THEN orphanTimers' = orphanTimers + 1
             ELSE /\ saveMessage' = lastSubmit'.message
                  /\ showRecordEntry'
                  /\ ownTimer'
     /\ (ownTimer /\ ~ownTimer') => ~showRecordEntry'
    ]_recordVars

\* C5 happens: an edit was saved to the local list after the remote save failed.
C5_Witness ==
  /\ lastSubmit.path = "local"
  /\ lastSubmit.remote = "failed"
  /\ lastSubmit.edit
  /\ lastSubmit.recordData # lastSubmit.editing
  /\ \E i \in 1..Len(teaRecords.recs) : teaRecords.recs[i] = lastSubmit.recordData
  /\ ownTimer
  /\ saveMessage = MsgUpdated

C7_DeleteRemovesOne ==
  [][\A id \in Ids(records) \cup Ids(teaRecords.recs) \cup {0}, ok \in BOOLEAN :
       (/\ handleDeleteRecord(id, FALSE, ok)
        /\ records = LoadedRecords(records, isSupabaseConnected, TRUE)
        /\ Ids(records) \subseteq reported
        /\ \A i, j \in 1..Len(records) : i # j => records[i].id # records[j].id) =>
         LET MinusOne(recs) ==
               IF \E i \in 1..Len(recs) : recs[i].id = id
               THEN LET k == CHOOSE i \in 1..Len(recs) :
                               /\ recs[i].id = id
                               /\ \A j \in 1..(i - 1) : recs[j].id # id
                    IN  SubSeq(recs, 1, k - 1) \o SubSeq(recs, k + 1, Len(recs))
               ELSE recs
         IN  /\ records' = MinusOne(records)
             /\ teaRecords'.recs = MinusOne(teaRecords.recs)
    ]_recordVars

\* C8: after a restart, when the records are loaded again, every record
\* whose save was reported as a success (and that was not deleted since) is
\* in the list, whether or not the remote store is connected.
C8_SavedSurvivesRestart ==
  pageLoad = "loaded" => reported \subseteq Ids(records)

C10_RoundHalfUp ==
  estimate.done =>
    LET size10 == CASE estimate.cupSize = "small" -> 8
                    [] estimate.cupSize = "medium" -> 10
                    [] estimate.cupSize = "large" -> 13
                    [] OTHER -> 10
        product == estimate.calories * size10 * (700 + 3 * estimate.sugarLevel)
    IN  /\ estimate.result = (2 * product + 10000) \div 20000
        /\ estimate.result >= 0

(***************************************************************************)
(* The claims about the sweetness labels.                                  *)
(***************************************************************************)
\* The label the specification gives a percent of 0..100.
C11_SpecifiedLabel(p) ==
  IF p = 0 THEN "none" ELSE IF p <= 30 THEN "light" ELSE IF p <= 70 THEN "half" ELSE "full"

\* C11: the sweetness label of a percent p of 0..100 is none for p = 0,
\* light for 0 < p <= 30, half for 30 < p <= 70 and full for 70 < p <= 100,
\* whichever getSugarLevelName of the program labels it.
C11_LabelTiers ==
  (sweetness.by # "none" /\ sweetness.p <= 100) =>
    sweetness.labelP = C11_SpecifiedLabel(sweetness.p)

\* The place of a label in the order none < light < half < full; a label
\* outside the four has none.
C12_TierRank(label) ==
  CASE label = "none" -> 0
    [] label = "light" -> 1
    [] label = "half" -> 2
    [] label = "full" -> 3
    [] OTHER -> -1

\* C12: the dialog's label is monotonic: for percents p <= q of 0..100 the
\* label of q is one of the four and is never a lighter one than the label of p.
C12_LabelMonotonic ==
  (sweetness.by = "dialog" /\ sweetness.p <= sweetness.q /\ sweetness.q <= 100) =>
    /\ C12_TierRank(sweetness.labelP) >= 0
    /\ C12_TierRank(sweetness.labelQ) >= C12_TierRank(sweetness.labelP)

\* Two percents on the two sides of a tier boundary were labelled by the dialog.
C12_Witness ==
  /\ sweetness.by = "dialog"
  /\ sweetness.p = 30
  /\ sweetness.q = 31
  /\ sweetness.labelP # sweetness.labelQ

(***************************************************************************)
(* The claims about the recommendations.                                   *)
(***************************************************************************)
\* The effect ran for a query that is not blank and found something.
C13_Recommended == scorer.done /\ Trim(scorer.searchQuery) # <<>> /\ scorer.searchResults # <<>>

\* C13: for a result set that is not empty, lowestCalorie is an element of
\* the set and its calories are at most those of every element of the set.
C13_LowestIsMinimal ==
  C13_Recommended =>
    LET lowestCalorie == scorer.recommendations.lowestCalorie
        searchResults == scorer.searchResults
    IN  /\ \E i \in 1..Len(searchResults) : searchResults[i] = lowestCalorie
        /\ \A i \in 1..Len(searchResults) : lowestCalorie.calories <= searchResults[i].calories

\* The lowest product of three results that all differ in calories, the
\* lowest not being the last, was recommended.
C13_Witness ==
  /\ C13_Recommended
  /\ Len(scorer.searchResults) = 3
  /\ scorer.searchResults[1].calories = 20
  /\ scorer.searchResults[2].calories = 10
  /\ scorer.searchResults[3].calories = 30
  /\ scorer.recommendations.lowestCalorie = scorer.searchResults[2]

\* C14: for a blank query or an empty result set both recommendations are
\* absent; for a result set of exactly one product p, lowestCalorie is p and
\* balanced is absent.
C14_NoneOrOne ==
  scorer.done =>
    /\ (Trim(scorer.searchQuery) = <<>> \/ scorer.searchResults = <<>>) =>
          scorer.recommendations = NoRecommendations
    /\ (Trim(scorer.searchQuery) # <<>> /\ Len(scorer.searchResults) = 1) =>
          /\ scorer.recommendations.lowestCalorie = scorer.searchResults[1]
          /\ scorer.recommendations.balanced = NoTeaProduct

\* The effect ran for a query that found exactly one product.
C14_Witness ==
  /\ scorer.done
  /\ Trim(scorer.searchQuery) # <<>>
  /\ Len(scorer.searchResults) = 1
  /\ scorer.recommendations.lowestCalorie = scorer.searchResults[1]

\* C15: when several products of the result set have the minimal calories,
\* lowestCalorie is the first of them in result order.
C15_FirstOfLowest ==
  C13_Recommended =>
    LET searchResults == scorer.searchResults
        Minimal(i) == \A j \in 1..Len(searchResults) :
                        searchResults[i].calories <= searchResults[j].calories
        first == CHOOSE i \in 1..Len(searchResults) :
                   Minimal(i) /\ \A j \in 1..(i - 1) : ~Minimal(j)
    IN  scorer.recommendations.lowestCalorie = searchResults[first]

\* The score of the specification for product, times 100 * calorieRange:
\* 0.5 * (rating / 5) + 0.3 * (1 - (calories - minCalories) / calorieRange)
\* + 0.2 for a brand other than the one of lowestCalorie, in exact arithmetic.
C16_Score(product, searchResults, lowestCalorie) ==
  LET minCalories == MinCalories(searchResults)
      range == MaxCalories(searchResults) - minCalories
      calorieRange == IF range = 0 THEN 1 ELSE range
  IN  product.rating * calorieRange
        + 30 * (calorieRange - (product.calories - minCalories))
        + (IF product.brand # lowestCalorie.brand THEN 20 * calorieRange ELSE 0)

\* C16: when the result set has a product other than lowestCalorie, balanced
\* is the first product in result order, among those other than
\* lowestCalorie, of the highest score.
C16_BalancedIsFirstBest ==
  C13_Recommended =>
    LET searchResults == scorer.searchResults
        lowestCalorie == scorer.recommendations.lowestCalorie
        Other(i) == searchResults[i].id # lowestCalorie.id
        Score(i) == C16_Score(searchResults[i], searchResults, lowestCalorie)
        Best(i) == Other(i) /\ \A j \in 1..Len(searchResults) :
                                 Other(j) => Score(j) <= Score(i)
    IN  (\E i \in 1..Len(searchResults) : Other(i)) =>
          LET first == CHOOSE i \in 1..Len(searchResults) :
                         Best(i) /\ \A j \in 1..(i - 1) : ~Best(j)
          IN  scorer.recommendations.balanced = searchResults[first]

(***************************************************************************)
(* The claims about the catalog search.                                    *)
(***************************************************************************)
\* C17: for a query that is not empty (here: not blank either) and any limit,
\* the catalog search returns at most limit products, and the name, the
\* brand or the description of each contains the query, letters compared
\* without regard to case.
C17_MatchesWithinLimit ==
  (lookup.done /\ Trim(lookup.query) # <<>>) =>
    /\ Len(lookup.found) <= lookup.limit
    /\ \A i \in 1..Len(lookup.found) :
         \/ ContainsIgnoringCase(lookup.found[i].name, lookup.query)
         \/ ContainsIgnoringCase(lookup.found[i].brand, lookup.query)
         \/ ContainsIgnoringCase(lookup.found[i].description, lookup.query)

\* C18: a catalog search with an empty or whitespace-only query returns an
\* empty result.
C18_BlankFindsNothing ==
  (lookup.done /\ Trim(lookup.query) = <<>>) => lookup.found = <<>>

\* The products of the static list whose name, brand or description
\* contains query, in list order, at most the limit of a search call.
C19_StaticMatches(query) ==
  LET Matches(product) == \/ ContainsIgnoringCase(product.name, query)
                          \/ ContainsIgnoringCase(product.brand, query)
                          \/ ContainsIgnoringCase(product.description, query)
      all == SelectSeq(mockProducts, Matches)
  IN  SubSeq(all, 1, IF Len(all) < DefaultSearchLimit THEN Len(all) ELSE DefaultSearchLimit)

C20_MalformedReadAsEmpty ==
  [][teaRecords.state = "malformed" =>
       /\ pageLoad' = "mounted" => records' = <<>>
       /\ (pageLoad' = "loaded" /\ ~isSupabaseConnected') => records' = <<>>
       /\ (lastSubmit'.path # "none" /\ lastSubmit'.remote = "failed") =>
            /\ lastSubmit'.path = "local"
            /\ lastSubmit'.message \in SuccessMessages
            /\ teaRecords'.state = "valid"
            /\ sub.editing = NoRecord => teaRecords'.recs = <<sub.recordData>>
    ]_recordVars

(***************************************************************************)
(* The claims about the sessions of the dialog.                            *)
(***************************************************************************)
\* C21: a session of the dialog goes from Idle over Searching and Selected
\* to Submitting and to Closed: a submit starts only in a dialog with a
\* product selected, and a dialog that the user neither cancels nor leaves
\* closes only in the step of a successful save or by the delayed close of
\* its own successful save.
C21_SessionOrder ==
  [][/\ submits' # submits => form.selectedDrink # NoProduct
     /\ (showRecordEntry /\ ~showRecordEntry' /\ route' = route /\ ~Cancel) =>
          \/ lastSubmit'.path = "onSave"
          \/ ownTimer /\ saveMessage \in SuccessMessages
    ]_recordVars

(***************************************************************************)
(* The claims about the two stores.                                        *)
(***************************************************************************)
\* C22: a record saved through the remote path and loaded back by the page
\* has the same drinkName, brand, calories, cupSize, sugarLevel, mood, notes,
\* date, timestamp and id as the record the local path persists for the same
\* submit and the page loads back, which is recordData.
C22_PathsInterchangeable ==
  (lastSubmit.path = "remote" /\ ~lastSubmit.edit) =>
    LET viaRemote == lastSubmit.stored
        viaLocal == lastSubmit.recordData
    IN  /\ viaRemote.drinkName = viaLocal.drinkName
        /\ viaRemote.brand = viaLocal.brand
        /\ viaRemote.calories = viaLocal.calories
        /\ viaRemote.cupSize = viaLocal.cupSize
        /\ viaRemote.sugarLevel = viaLocal.sugarLevel
        /\ viaRemote.mood = viaLocal.mood
        /\ viaRemote.notes = viaLocal.notes
        /\ viaRemote.date = viaLocal.date
        /\ viaRemote.timestamp = viaLocal.timestamp
        /\ viaRemote.id = viaLocal.id

(***************************************************************************)
(* The claims about the weekly budget.                                     *)
(***************************************************************************)
\* t is in the week of current: some Sunday 00:00 is not after t, t is not
\* after current, and current is less than a week after that Sunday.
C23_InCurrentWeek(t, current) ==
  \E day \in (0 - DaysPerWeek)..(current \div TicksPerDay) :
    /\ (day + FirstWeekday) % DaysPerWeek = 0
    /\ day * TicksPerDay <= t
    /\ t <= current
    /\ current < (day + DaysPerWeek) * TicksPerDay

RECURSIVE C23_Sum(_, _)
C23_Sum(list, current) ==
  IF list = <<>> THEN 0
  ELSE (IF C23_InCurrentWeek(list[1].timestamp, current) THEN list[1].calories ELSE 0)
         + C23_Sum(Tail(list), current)

\* C23: after every add, edit and delete of a record on the page, the weekly
\* calories the page computes at its render are the sum of the calories of
\* the records of the list whose timestamp is in the current week, 0 when
\* there is none.
C23_WeeklyCalories ==
  [][records' # records =>
       getWeeklyStats(records', now') = C23_Sum(records', now')]_recordVars

\* The list holds a record of the week before and one of the current week,
\* just added or edited.
C23_Witness ==
  /\ lastSubmit.path = "onSave"
  /\ \E i \in 1..Len(records) : records[i].timestamp < StartOfWeek(now)
  /\ \E i \in 1..Len(records) : records[i].timestamp >= StartOfWeek(now)

(***************************************************************************)
(* The claim about the presence of the balanced recommendation.            *)
(***************************************************************************)
\* C24: balanced is present exactly when the result set holds a product
\* whose id differs from the id of lowestCalorie, and its id then differs
\* from the id of lowestCalorie; when the scoring step had no candidate, the
\* fallback step gives no recommendation.
C24_BalancedPresence ==
  C13_Recommended =>
    LET searchResults == scorer.searchResults
        lowestCalorie == scorer.recommendations.lowestCalorie
        balanced == scorer.recommendations.balanced
        others == \E i \in 1..Len(searchResults) : searchResults[i].id # lowestCalorie.id
    IN  /\ balanced # NoTeaProduct <=> others
        /\ balanced # NoTeaProduct =>
             /\ balanced.id # lowestCalorie.id
             /\ \E i \in 1..Len(searchResults) : searchResults[i] = balanced

\* The effect ran for two results of one id that differ in rating and
\* calories: the scoring step had no candidate, the fallback step ran, and
\* balanced is absent.
C24_Witness ==
  /\ C13_Recommended
  /\ Len(scorer.searchResults) = 2
  /\ scorer.searchResults[1].id = scorer.searchResults[2].id
  /\ scorer.searchResults[1].rating # scorer.searchResults[2].rating
  /\ scorer.searchResults[1].calories # scorer.searchResults[2].calories
  /\ scorer.recommendations.lowestCalorie # NoTeaProduct
  /\ scorer.recommendations.balanced = NoTeaProduct

(***************************************************************************)
(* The claims about editing and about the delayed close.                   *)
(***************************************************************************)
\* C25: a record opened for edit and saved with no field changed keeps its
\* sugarLevel label, cupSize, mood, notes and drinkName.
C25_UnchangedEditKeepsFields ==
  [][(submits' # submits /\ editingRecord # NoRecord /\ form = FormFor(editingRecord)) =>
       LET saved == lastSubmit'.recordData
       IN  /\ saved.sugarLevel = editingRecord.sugarLevel
           /\ saved.cupSize = editingRecord.cupSize
           /\ saved.mood = editingRecord.mood
           /\ saved.notes = editingRecord.notes
           /\ saved.drinkName = editingRecord.drinkName
    ]_recordVars

\* C26: an open dialog stays open with its editingRecord until the user
\* cancels it, saves in it (the save or its own delayed close closes it) or
\* leaves the page: no delayed close of an earlier save closes it or clears
\* its editingRecord.
C26_DialogStaysOpen ==
  [][(showRecordEntry /\ route' = route /\ pageLoad' # "mounted") =>
       \/ showRecordEntry' /\ editingRecord' = editingRecord
       \/ Cancel
       \/ submits' # submits
       \/ ownTimer /\ ~ownTimer'
    ]_recordVars

(***************************************************************************)
(* The claims about deleting.                                              *)
(***************************************************************************)
\* C27: a delete whose setItem succeeds leaves in the persisted local list
\* exactly the entries persisted before it that do not have the deleted id,
\* here when the list on the page is the one loaded from the remote store.
C27_DeleteKeepsTheOthers ==
  [][\A id \in Ids(records) :
       (/\ teaRecords.state = "valid"
        /\ isSupabaseConnected /\ remote # <<>> /\ records = LoadedRecords(records, TRUE, TRUE)
        /\ \E ok \in BOOLEAN : handleDeleteRecord(id, FALSE, ok)) =>
         teaRecords' = LocalValid(WithoutId(teaRecords.recs, id))
    ]_recordVars

\* C28: a record whose delete has completed is not shown by a later reload,
\* here by the reloads that come before the next save begins and find the
\* record gone from the local list.
C28_DeletedStaysAway ==
  [][((MountRecordsPage \/ \E connected \in BOOLEAN, ok \in BOOLEAN : ConnCheckReturn(connected, ok))
        /\ lastDelete.at = submits
        /\ lastDelete.id \notin Ids(teaRecords.recs)) =>
       lastDelete.id \notin Ids(records')
    ]_recordVars

(***************************************************************************)
(* The claim about the budget editor.                                      *)
(***************************************************************************)
\* d is above 0 and at most 10000.
C29_InRange(d) == Positive(d) /\ AtMost(d, MaxBudget)

\* C29: after every step of the budget editor the weekly budget is above 0
\* and at most 10000, the same in the manager and in the page, and each
\* stored item is that budget as text; a save of a value outside (0, 10000]
\* changes nothing and leaves the editor open; cancel puts the current
\* budget back into the edited value.
C29_BudgetKept ==
  [][/\ (openBudgetEditor \/ saveBudget \/ cancelEdit
           \/ \E text \in BudgetInputs : setTempBudget(text)) =>
          /\ C29_InRange(budget'.manager)
          /\ budget'.manager = budget'.page
          /\ budget'.weeklyBudgetItem \in {NoItem, toString(budget'.page)}
          /\ budget'.weeklyCalorieBudgetItem \in {NoItem, toString(budget'.manager)}
     /\ (saveBudget /\ ~C29_InRange(budget.tempBudget)) => (budget' = budget /\ budget'.isEditing)
     /\ cancelEdit => budget'.tempBudget = budget'.manager
    ]_budget

(***************************************************************************)
(* The claim about the end of a submit.                                    *)
(***************************************************************************)
\* C30: a submit that has set isSaving ends, with the dialog closed or with
\* isSaving false again and the save-failed message; no submit begins while
\* isSaving is true; and the saves of one dialog session add at most one
\* record.
C30_SubmitsEnd ==
  /\ isSaving ~> (~showRecordEntry \/ (~isSaving /\ saveMessage = MsgFailed))
  /\ [][isSaving => submits' = submits]_recordVars
  /\ [](sessionAdds <= 1)

====
